---- MODULE Spec2Model ----
(***************************************************************************)
(* Session relay and conversation-state reconciliation engine of the voice *)
(* agent server: src/server.js and its later revision src/unnamed/part_003 *)
(* (which adds previousMessages replay and drops the welcome-back turn).   *)
(*                                                                         *)
(* One client at a time talks to the server over successive WebSocket      *)
(* connections for one (username, conversationId, sessionId); the store,   *)
(* the local fallback file and the activeSessions registry are process     *)
(* wide and survive the connections.                                       *)
(*                                                                         *)
(* Text is a sequence of characters; a character is an integer:            *)
(*   Space  a whitespace character (removed by String.trim)                *)
(*   Dot    the '.' of the ellipsis marker                                 *)
(*   UserCh a character of a user transcription                            *)
(*   r > 0  a character generated by the upstream response with id r       *)
(***************************************************************************)
EXTENDS Integers, Sequences, FiniteSets, TLC

\* ---------------------------------------------------------------- bounds
MaxConns == 2      \* client connections opened in one behaviour
MaxResp == 2       \* response ids the upstream engine creates per connection
MaxMsgs == 2       \* messages finalized on one connection
MaxContent == 2    \* characters accumulated by deltas in one accumulator
MaxTranscript == 3 \* length of a complete-transcript text
MaxComplete == 1   \* complete-transcript events per accumulator
MaxAudio == 1      \* audio frames a client sends on one connection
MaxPending == 2    \* saveConversation calls in flight at once
MaxTime == 1500    \* last value of the clock
MaxOrphans == 1    \* upstream sockets one connection replaces without closing
MaxSockets == 3    \* WebSockets the page opens in one behaviour

\* ------------------------------------------------------ program constants
MAX_RETRIES == 3
MAX_RECONNECT_ATTEMPTS == 5
DEBOUNCE_MS == 1000
TickMs == DEBOUNCE_MS \div 2

Space == 0
Dot == -1
UserCh == -2
NoId == 0
NoTime == -1

Ellipsis == <<Dot, Dot, Dot>>

Variants == {"server_js", "part_003"}

\* The revisions of the page's script: src/client/script.js (its first
\* script, lines 1-765) and src/unnamed/part_000.
ClientVariants == {"script_js", "part_000"}

\* ---------------------------------------------------------------- strings
RECURSIVE TrimLeft(_)
TrimLeft(s) ==
  IF s = <<>> THEN <<>>
  ELSE IF Head(s) = Space THEN TrimLeft(Tail(s)) ELSE s

RECURSIVE TrimRight(_)
TrimRight(s) ==
  IF s = <<>> THEN <<>>
  ELSE IF s[Len(s)] = Space THEN TrimRight(SubSeq(s, 1, Len(s) - 1)) ELSE s

Trim(s) == TrimRight(TrimLeft(s))

Chars(s) == {s[i] : i \in 1..Len(s)}

IsPrefix(s, t) == Len(s) <= Len(t) /\ SubSeq(t, 1, Len(s)) = s

\* ------------------------------------------------------------------ state
VARIABLES
  variant,               \* which revision of the server runs
  supabase,              \* TRUE iff createClient succeeded at startup
  now,                   \* Date.now()
  conn,                  \* number of client connections accepted so far
  clientWs,              \* "none" | "open" | "closed": the current clientWs
  username,              \* FALSE = null, TRUE once start set it
  conversationId,        \* 0 = null
  sessionId,             \* 0 = null
  conversationMessages,  \* [1..MaxConns -> transcript array of that connection]
  messageSequence,
  openaiWs,              \* "null" | "connecting" | "open" | "closing" | "closed"
  activeResponse,
  currentResponseId,
  currentAssistantMessage,
  isReconnection,
  hasMessages,
  previousMessages,
  greetTimer,            \* "none" | "greeting" | "welcome": the armed setTimeout
  autoSaveInterval,      \* TRUE while the setInterval is armed
  lastSavedMessageCount,
  upstreamSent,          \* what this connection sent to the upstream engine
  clientSent,            \* what the last handler sent to the client
  respState,             \* upstream engine: [1..MaxResp -> "none"|"open"|"done"]
  interruptedIds,        \* upstream engine: response ids the server cancelled
  erroredIds,            \* history: unfinished response ids that were Active when
                         \* an error that is not transient arrived
  rescued,               \* history: the accumulated content when the connection
                         \* last handled emergency_save
  orphans,               \* upstream sockets an earlier start of this connection
                         \* created, replaced in openaiWs and not closed since
  stopped,               \* history: "no", or the stop message whose handler this
                         \* connection has run to its end: "stop" | "stop_new"
  saves,                 \* saveConversation calls in flight (stored: history, the
                         \* total_messages of the row when the call began;
                         \* alone: history, no other call was in flight with it)
  store,                 \* the conversations row of the key, or NoRecord
  fallbackFile,          \* the local fallback file of the key, or NoRecord
  activeSessions,        \* the registry entry of the sessionId, or NoSession
  evictTimers,           \* armed 5 s eviction timers
  accDeltas,             \* history: text the deltas added since the accumulator was reset
  accComplete,           \* history: complete transcripts received since that reset
  accLate,               \* history: a delta arrived after a complete transcript
  assigned,              \* history: the sequence numbers handed out in the conversation,
                         \* each with the response id of the event that caused it
  client                 \* the script of the browser page: its variables, its
                         \* latest WebSocket and (history) the start messages it
                         \* sent; no handler of the server reads it

idVars == <<conn, clientWs, username, conversationId, sessionId,
            isReconnection, hasMessages, previousMessages, rescued, orphans>>
connVars == <<idVars, stopped>>
turnVars == <<activeResponse, currentResponseId, currentAssistantMessage,
              accDeltas, accComplete, accLate>>
msgVars == <<conversationMessages, messageSequence, assigned>>
upVars == <<openaiWs, greetTimer, upstreamSent, respState, interruptedIds,
           erroredIds>>
saveVars == <<saves, store, fallbackFile, activeSessions>>
timerVars == <<autoSaveInterval, lastSavedMessageCount, evictTimers>>
envVars == <<variant, supabase, now, client>>

vars == <<connVars, turnVars, msgVars, upVars, saveVars, timerVars, envVars,
          clientSent>>

serverVars == <<connVars, turnVars, msgVars, upVars, saveVars, timerVars,
                variant, supabase, now, clientSent>>

NoRecord == [total_messages |-> -1, messages |-> <<>>, updated_at |-> NoTime]
NoSession == [messageCount |-> -1, lastSaveTime |-> NoTime]

EmptyAssistantMessage ==
  [role |-> "assistant", content |-> <<>>, timestamp |-> NoTime,
   interrupted |-> FALSE]

Messages == conversationMessages[conn]

\* ------------------------------------------------- saveConversation, start
\* The record handed to the store: messages is the live array, the count is
\* taken when the save starts.
ConversationData(messages, total, at) ==
  [total_messages |-> total, messages |-> messages, updated_at |-> at]

SaveFallbackLocalAlwaysWrites(file, data) == data

\* saveFallbackLocal: the file is rewritten unless it holds as many messages.
SaveFallbackLocal(file, data) ==
  IF file # NoRecord /\ file.total_messages >= data.total_messages
  THEN file
  ELSE data

SuppressedBySameCountOnly(n, forceImmediate) ==
  /\ ~forceImmediate
  /\ sessionId # 0
  /\ activeSessions # NoSession
  /\ activeSessions.messageCount = n

\* The dedupe/debounce check of a save that is not forced.
Suppressed(n, forceImmediate) ==
  /\ ~forceImmediate
  /\ sessionId # 0
  /\ activeSessions # NoSession
  /\ \/ activeSessions.messageCount = n
     \/ /\ activeSessions.lastSaveTime # 0
        /\ now - activeSessions.lastSaveTime < DEBOUNCE_MS

NewSave(n, waiter) ==
  [conn |-> conn, total |-> n, at |-> now, attempt |-> 0, pc |-> "select",
   existing |-> NoRecord.total_messages, body |-> NoRecord, waiter |-> waiter,
   stored |-> store.total_messages, alone |-> saves = <<>>]

SaveConversationAlwaysDedupes(messages, forceImmediate, waiter) ==
  IF Len(messages) = 0 \/ Suppressed(Len(messages), FALSE)
  THEN UNCHANGED saveVars
  ELSE /\ activeSessions' =
            IF sessionId # 0
            THEN [messageCount |-> Len(messages), lastSaveTime |-> now]
            ELSE activeSessions
       /\ IF supabase
          THEN /\ saves' = Append([i \in 1..Len(saves) |->
                                      [saves[i] EXCEPT !.alone = FALSE]],
                                   NewSave(Len(messages), waiter))
               /\ UNCHANGED <<store, fallbackFile>>
          ELSE /\ fallbackFile' =
                    SaveFallbackLocal(fallbackFile,
                                      ConversationData(messages, Len(messages), now))
               /\ UNCHANGED <<saves, store>>

\* The part of saveConversation that runs before its first await.
SaveConversation(messages, forceImmediate, waiter) ==
  IF Len(messages) = 0 \/ Suppressed(Len(messages), forceImmediate)
  THEN UNCHANGED saveVars
  ELSE /\ activeSessions' =
            IF sessionId # 0
            THEN [messageCount |-> Len(messages), lastSaveTime |-> now]
            ELSE activeSessions
       /\ IF supabase
          THEN /\ saves' = Append([i \in 1..Len(saves) |->
                                      [saves[i] EXCEPT !.alone = FALSE]],
                                   NewSave(Len(messages), waiter))
               /\ UNCHANGED <<store, fallbackFile>>
          ELSE /\ fallbackFile' =
                    SaveFallbackLocal(fallbackFile,
                                      ConversationData(messages, Len(messages), now))
               /\ UNCHANGED <<saves, store>>

\* A handler that may start a save runs only while the model has room for it.
SaveRoom == Len(saves) < MaxPending

\* ------------------------------------------------------ upstream events
UpstreamOpen == clientWs = "open" /\ openaiWs = "open"

PushUnshifts(m, by) ==
  /\ conversationMessages' =
       [conversationMessages EXCEPT ![conn] = <<m>> \o @]
  /\ messageSequence' = messageSequence + 1
  /\ assigned' = Append(assigned, [conn |-> conn, sequence |-> m.sequence,
                                   by |-> by])

PushSameSequence(m, by) ==
  /\ conversationMessages' =
       [conversationMessages EXCEPT ![conn] = Append(@, m)]
  /\ messageSequence' = messageSequence
  /\ assigned' = Append(assigned, [conn |-> conn, sequence |-> m.sequence,
                                   by |-> by])

Push(m, by) ==
  /\ conversationMessages' =
       [conversationMessages EXCEPT ![conn] = Append(@, m)]
  /\ messageSequence' = messageSequence + 1
  /\ assigned' = Append(assigned, [conn |-> conn, sequence |-> m.sequence,
                                   by |-> by])

ResetTurn ==
  /\ currentAssistantMessage' = EmptyAssistantMessage
  /\ accDeltas' = <<>>
  /\ accComplete' = <<>>
  /\ accLate' = FALSE

SpeechStartedDropsTurn ==
  /\ UpstreamOpen
  /\ IF activeResponse /\ currentResponseId # NoId
     THEN /\ upstreamSent' = Append(upstreamSent, [type |-> "response.cancel"])
          /\ clientSent' =
               (IF variant = "part_003"
                THEN <<[type |-> "speech_started"]>> ELSE <<>>)
               \o <<[type |-> "response_interrupted"]>>
          /\ activeResponse' = FALSE
          /\ currentResponseId' = NoId
          /\ ResetTurn
          /\ interruptedIds' = interruptedIds \cup {currentResponseId}
          /\ UNCHANGED <<openaiWs, greetTimer, respState, erroredIds, msgVars,
                         saveVars>>
     ELSE /\ clientSent' =
               IF variant = "part_003"
               THEN <<[type |-> "speech_started"]>> ELSE <<>>
          /\ UNCHANGED <<turnVars, msgVars, upVars, saveVars>>
  /\ UNCHANGED <<connVars, timerVars, envVars>>

\* input_audio_buffer.speech_started
SpeechStarted ==
  /\ UpstreamOpen
  /\ IF activeResponse /\ currentResponseId # NoId
     THEN /\ Len(Messages) < MaxMsgs
          /\ SaveRoom
          /\ LET m == [sequence |-> messageSequence,
                       role |-> currentAssistantMessage.role,
                       content |-> currentAssistantMessage.content \o Ellipsis,
                       timestamp |-> currentAssistantMessage.timestamp,
                       interrupted |-> TRUE]
             IN /\ Push(m, currentResponseId)
                /\ IF username
                   THEN SaveConversation(Append(Messages, m), TRUE, "none")
                   ELSE UNCHANGED saveVars
          /\ upstreamSent' = Append(upstreamSent, [type |-> "response.cancel"])
          /\ clientSent' =
               (IF variant = "part_003"
                THEN <<[type |-> "speech_started"]>> ELSE <<>>)
               \o <<[type |-> "response_interrupted"]>>
          /\ activeResponse' = FALSE
          /\ currentResponseId' = NoId
          /\ ResetTurn
          /\ interruptedIds' = interruptedIds \cup {currentResponseId}
          /\ UNCHANGED <<openaiWs, greetTimer, respState, erroredIds>>
     ELSE /\ clientSent' =
               IF variant = "part_003"
               THEN <<[type |-> "speech_started"]>> ELSE <<>>
          /\ UNCHANGED <<turnVars, msgVars, upVars, saveVars>>
  /\ UNCHANGED <<connVars, timerVars, envVars>>

\* conversation.item.input_audio_transcription.completed
TranscriptionCompleted(transcript) ==
  /\ UpstreamOpen
  /\ Len(Messages) < MaxMsgs
  /\ SaveRoom
  /\ LET m == [sequence |-> messageSequence, role |-> "user",
               content |-> transcript, timestamp |-> now]
     IN /\ Push(m, NoId)
        /\ IF username
           THEN SaveConversation(Append(Messages, m), TRUE, "none")
           ELSE UNCHANGED saveVars
        /\ clientSent' = <<[type |-> "user_transcription", text |-> m.content]>>
  /\ UNCHANGED <<connVars, turnVars, upVars, timerVars, envVars>>

ResponseCreatedMerges(r) ==
  /\ UpstreamOpen
  /\ respState[r] = "none"
  /\ \A q \in 1..(r - 1) : respState[q] # "none"
  /\ respState' = [respState EXCEPT ![r] = "open"]
  /\ activeResponse' = TRUE
  /\ currentResponseId' = r
  /\ IF activeResponse
     THEN UNCHANGED <<currentAssistantMessage, accDeltas, accComplete, accLate>>
     ELSE /\ currentAssistantMessage' =
               [role |-> "assistant", content |-> <<>>, timestamp |-> now,
                interrupted |-> FALSE]
          /\ accDeltas' = <<>>
          /\ accComplete' = <<>>
          /\ accLate' = FALSE
  /\ clientSent' =
       IF variant = "part_003"
       THEN <<[type |-> "response_creating"]>> ELSE <<>>
  /\ UNCHANGED <<connVars, msgVars, openaiWs, greetTimer, upstreamSent,
                 interruptedIds, erroredIds, saveVars, timerVars, envVars>>

\* response.created
ResponseCreated(r) ==
  /\ UpstreamOpen
  /\ respState[r] = "none"
  /\ \A q \in 1..(r - 1) : respState[q] # "none"
  /\ respState' = [respState EXCEPT ![r] = "open"]
  /\ activeResponse' = TRUE
  /\ currentResponseId' = r
  /\ currentAssistantMessage' =
       [role |-> "assistant", content |-> <<>>, timestamp |-> now,
        interrupted |-> FALSE]
  /\ accDeltas' = <<>>
  /\ accComplete' = <<>>
  /\ accLate' = FALSE
  /\ clientSent' =
       IF variant = "part_003"
       THEN <<[type |-> "response_creating"]>> ELSE <<>>
  /\ UNCHANGED <<connVars, msgVars, openaiWs, greetTimer, upstreamSent,
                 interruptedIds, erroredIds, saveVars, timerVars, envVars>>

\* response.text.delta and response.audio_transcript.delta
TranscriptDelta(r, delta) ==
  /\ UpstreamOpen
  /\ respState[r] = "open"
  /\ Len(currentAssistantMessage.content) + Len(delta) <= MaxContent
  /\ currentAssistantMessage' =
       [currentAssistantMessage EXCEPT !.content = @ \o delta]
  /\ accDeltas' = accDeltas \o delta
  /\ accLate' = (accLate \/ accComplete # <<>>)
  /\ clientSent' = <<[type |-> "assistant_transcript_delta", text |-> delta]>>
  /\ UNCHANGED <<connVars, activeResponse, currentResponseId, accComplete,
                 msgVars, upVars, saveVars, timerVars, envVars>>

AudioTranscriptDoneAlways(r, transcript) ==
  /\ UpstreamOpen
  /\ respState[r] = "open"
  /\ Len(accComplete) < MaxComplete
  /\ currentAssistantMessage' =
       [currentAssistantMessage EXCEPT !.content = transcript]
  /\ accComplete' = Append(accComplete, transcript)
  /\ clientSent' =
       <<[type |-> "assistant_transcript_complete", text |-> transcript]>>
  /\ UNCHANGED <<connVars, activeResponse, currentResponseId, accDeltas,
                 accLate, msgVars, upVars, saveVars, timerVars, envVars>>

\* response.audio_transcript.done
AudioTranscriptDone(r, transcript) ==
  /\ UpstreamOpen
  /\ respState[r] = "open"
  /\ Len(accComplete) < MaxComplete
  /\ currentAssistantMessage' =
       IF Len(transcript) > Len(currentAssistantMessage.content)
       THEN [currentAssistantMessage EXCEPT !.content = transcript]
       ELSE currentAssistantMessage
  /\ accComplete' = Append(accComplete, transcript)
  /\ clientSent' =
       <<[type |-> "assistant_transcript_complete", text |-> transcript]>>
  /\ UNCHANGED <<connVars, activeResponse, currentResponseId, accDeltas,
                 accLate, msgVars, upVars, saveVars, timerVars, envVars>>

\* response.audio.delta
AudioDelta(r) ==
  /\ UpstreamOpen
  /\ respState[r] = "open"
  /\ clientSent' = <<[type |-> "assistant_audio_delta"]>>
  /\ UNCHANGED <<connVars, turnVars, msgVars, upVars, saveVars, timerVars,
                 envVars>>

\* response.done
ResponseDone(r) ==
  /\ UpstreamOpen
  /\ respState[r] = "open"
  /\ respState' = [respState EXCEPT ![r] = "done"]
  /\ activeResponse' = FALSE
  /\ currentResponseId' = NoId
  /\ IF Trim(currentAssistantMessage.content) # <<>>
     THEN /\ Len(Messages) < MaxMsgs
          /\ SaveRoom
          /\ LET m == [sequence |-> messageSequence,
                       role |-> currentAssistantMessage.role,
                       content |-> currentAssistantMessage.content,
                       timestamp |-> currentAssistantMessage.timestamp,
                       interrupted |-> FALSE]
             IN /\ Push(m, r)
                /\ IF username
                   THEN SaveConversation(Append(Messages, m), TRUE, "none")
                   ELSE UNCHANGED saveVars
     ELSE UNCHANGED <<msgVars, saveVars>>
  /\ ResetTurn
  /\ clientSent' = <<[type |-> "response_complete"]>>
  /\ erroredIds' = erroredIds \ {r}
  /\ UNCHANGED <<connVars, openaiWs, greetTimer, upstreamSent, interruptedIds,
                 timerVars, envVars>>

\* response.cancelled
ResponseCancelled ==
  /\ UpstreamOpen
  /\ activeResponse' = FALSE
  /\ currentResponseId' = NoId
  /\ clientSent' = <<>>
  /\ UNCHANGED <<connVars, currentAssistantMessage, accDeltas, accComplete,
                 accLate, msgVars, upVars, saveVars, timerVars, envVars>>

\* event.error.message.includes(text): a message is a sequence of phrases.
Includes(message, text) == \E i \in 1..Len(message) : message[i] = text

\* The errors the bridge does not forward to the client.
Transient(message) ==
  Includes(message, "buffer too small") \/ Includes(message, "active response")

UpstreamErrorForwardsOtherTypes(errType, message) ==
  /\ UpstreamOpen
  /\ IF errType = "invalid_request_error"
     THEN activeResponse' = FALSE /\ currentResponseId' = NoId
     ELSE UNCHANGED <<activeResponse, currentResponseId>>
  /\ clientSent' = IF errType # "invalid_request_error" /\ ~Transient(message)
                   THEN <<[type |-> "error", message |-> message]>>
                   ELSE <<>>
  /\ erroredIds' = IF activeResponse /\ ~Transient(message)
                   THEN erroredIds \cup {currentResponseId}
                   ELSE erroredIds
  /\ UNCHANGED <<connVars, currentAssistantMessage, accDeltas, accComplete,
                 accLate, msgVars, openaiWs, greetTimer, upstreamSent,
                 respState, interruptedIds, saveVars, timerVars, envVars>>

\* error
UpstreamError(errType, message) ==
  /\ UpstreamOpen
  /\ IF errType = "invalid_request_error"
     THEN activeResponse' = FALSE /\ currentResponseId' = NoId
     ELSE UNCHANGED <<activeResponse, currentResponseId>>
  /\ clientSent' = IF ~Transient(message)
                   THEN <<[type |-> "error", message |-> message]>>
                   ELSE <<>>
  /\ erroredIds' = IF activeResponse /\ ~Transient(message)
                   THEN erroredIds \cup {currentResponseId}
                   ELSE erroredIds
  /\ UNCHANGED <<connVars, currentAssistantMessage, accDeltas, accComplete,
                 accLate, msgVars, openaiWs, greetTimer, upstreamSent,
                 respState, interruptedIds, saveVars, timerVars, envVars>>

\* ------------------------------------------------- client connection
\* wss.on('connection'): the per-connection variables of a new clientWs.
Connect ==
  /\ clientWs \in {"none", "closed"}
  /\ openaiWs \in {"null", "closed"}
  /\ conn < MaxConns
  /\ conn' = conn + 1
  /\ clientWs' = "open"
  /\ username' = FALSE
  /\ conversationId' = 0
  /\ sessionId' = 0
  /\ isReconnection' = FALSE
  /\ hasMessages' = FALSE
  /\ previousMessages' = <<>>
  /\ messageSequence' = 0
  /\ openaiWs' = "null"
  /\ activeResponse' = FALSE
  /\ currentResponseId' = NoId
  /\ ResetTurn
  /\ greetTimer' = "none"
  /\ upstreamSent' = <<>>
  /\ respState' = [r \in 1..MaxResp |-> "none"]
  /\ interruptedIds' = {}
  /\ erroredIds' = {}
  /\ rescued' = <<>>
  /\ stopped' = "no"
  /\ orphans' = 0
  /\ autoSaveInterval' = TRUE
  /\ lastSavedMessageCount' = 0
  /\ clientSent' = <<>>
  /\ UNCHANGED <<conversationMessages, assigned, saveVars, evictTimers,
                 envVars>>

\* What a client can put in msg.previousMessages: nothing, or the transcript
\* it was shown on its previous connection.
PreviousChoices ==
  {<<>>} \cup (IF conn > 1 THEN {conversationMessages[conn - 1]} ELSE {})

\* clientWs.on('message'), type start
Start(isRec, hasMsg, prev) ==
  /\ clientWs = "open"
  /\ openaiWs = "null"
  /\ username' = TRUE
  /\ sessionId' = 1
  /\ conversationId' = 1
  /\ isReconnection' = isRec
  /\ hasMessages' = hasMsg
  /\ IF variant = "part_003"
     THEN /\ previousMessages' = prev
          /\ IF Len(prev) > 0 /\ Len(Messages) = 0
             THEN /\ conversationMessages' =
                       [conversationMessages EXCEPT ![conn] = prev]
                  /\ messageSequence' = Len(prev)
             ELSE UNCHANGED <<conversationMessages, messageSequence>>
     ELSE /\ prev = <<>>
          /\ UNCHANGED <<previousMessages, conversationMessages,
                         messageSequence>>
  /\ openaiWs' = "connecting"
  /\ clientSent' = <<>>
  /\ UNCHANGED <<conn, clientWs, rescued, stopped, orphans, turnVars, assigned,
                 greetTimer,
                 upstreamSent,
                 respState, interruptedIds, erroredIds, saveVars, timerVars, envVars>>

\* clientWs.on('message'), type start, on a connection that has created an
\* upstream socket before: the new socket replaces it in openaiWs; the old
\* one is not closed and keeps its handlers.
Restart(isRec, hasMsg, prev) ==
  /\ clientWs = "open"
  /\ openaiWs # "null"
  /\ orphans < MaxOrphans
  /\ username' = TRUE
  /\ sessionId' = 1
  /\ conversationId' = 1
  /\ isReconnection' = isRec
  /\ hasMessages' = hasMsg
  /\ IF variant = "part_003"
     THEN /\ previousMessages' = prev
          /\ IF Len(prev) > 0 /\ Len(Messages) = 0
             THEN /\ conversationMessages' =
                       [conversationMessages EXCEPT ![conn] = prev]
                  /\ messageSequence' = Len(prev)
             ELSE UNCHANGED <<conversationMessages, messageSequence>>
     ELSE /\ prev = <<>>
          /\ UNCHANGED <<previousMessages, conversationMessages,
                         messageSequence>>
  /\ orphans' = IF openaiWs \in {"connecting", "open"} THEN orphans + 1
                ELSE orphans
  /\ openaiWs' = "connecting"
  /\ clientSent' = <<>>
  /\ UNCHANGED <<conn, clientWs, rescued, stopped, turnVars, assigned,
                 greetTimer, upstreamSent, respState, interruptedIds,
                 erroredIds, saveVars, timerVars, envVars>>

\* conversation.item.input_audio_transcription.completed arriving on a
\* replaced upstream socket: its handler is the one of the connection.
OrphanTranscriptionCompleted(transcript) ==
  /\ clientWs = "open"
  /\ orphans > 0
  /\ Len(Messages) < MaxMsgs
  /\ SaveRoom
  /\ LET m == [sequence |-> messageSequence, role |-> "user",
               content |-> transcript, timestamp |-> now]
     IN /\ Push(m, NoId)
        /\ IF username
           THEN SaveConversation(Append(Messages, m), TRUE, "none")
           ELSE UNCHANGED saveVars
        /\ clientSent' = <<[type |-> "user_transcription", text |-> m.content]>>
  /\ UNCHANGED <<connVars, turnVars, upVars, timerVars, envVars>>

\* openaiWs.on('close') of a replaced upstream socket, closed by the engine.
OrphanClosed ==
  /\ orphans > 0
  /\ orphans' = orphans - 1
  /\ IF Len(Messages) > 0 /\ username
     THEN SaveRoom /\ SaveConversation(Messages, TRUE, "none")
     ELSE UNCHANGED saveVars
  /\ clientSent' = <<>>
  /\ UNCHANGED <<conn, clientWs, username, conversationId, sessionId,
                 isReconnection, hasMessages, previousMessages, rescued,
                 stopped, turnVars, msgVars, upVars, timerVars, envVars>>

\* One conversation.item.create of the context restore.
ReplayItem(m) ==
  [type |-> "conversation.item.create", item |-> "history", role |-> m.role,
   ctype |-> IF m.role = "user" THEN "input_text" ELSE "text",
   text |-> m.content]

RECURSIVE ReplayItems(_)
ReplayItems(msgs) ==
  IF msgs = <<>> THEN <<>>
  ELSE (IF Head(msgs).role \in {"user", "assistant"}
        THEN <<ReplayItem(Head(msgs))>> ELSE <<>>)
       \o ReplayItems(Tail(msgs))

StartupTimerNoGreeting ==
  IF variant = "server_js"
  THEN IF isReconnection /\ ~hasMessages THEN "greeting"
       ELSE IF hasMessages THEN "welcome" ELSE "none"
  ELSE IF isReconnection /\ ~hasMessages /\ Len(previousMessages) = 0
       THEN "greeting" ELSE "none"

StartupTimerGreetsReconnection ==
  IF variant = "server_js"
  THEN IF ~hasMessages THEN "greeting" ELSE "welcome"
  ELSE IF ~hasMessages /\ Len(previousMessages) = 0
       THEN "greeting" ELSE "none"

\* The startup decision of openaiWs.on('open'): which timer is armed.
StartupTimer ==
  IF variant = "server_js"
  THEN IF ~isReconnection /\ ~hasMessages THEN "greeting"
       ELSE IF hasMessages THEN "welcome" ELSE "none"
  ELSE IF ~isReconnection /\ ~hasMessages /\ Len(previousMessages) = 0
       THEN "greeting" ELSE "none"

\* openaiWs.on('open')
UpstreamOpened ==
  /\ openaiWs = "connecting"
  /\ openaiWs' = "open"
  /\ upstreamSent' =
       <<[type |-> "session.update"]>>
       \o (IF variant = "part_003" THEN ReplayItems(previousMessages)
           ELSE <<>>)
  /\ greetTimer' = StartupTimer
  /\ clientSent' = <<>>
  /\ UNCHANGED <<connVars, turnVars, msgVars, respState, interruptedIds, erroredIds,
                 saveVars, timerVars, envVars>>

GreetingTimeoutRecordsUtterance ==
  /\ greetTimer # "none"
  /\ greetTimer' = "none"
  /\ Len(Messages) < MaxMsgs
  /\ upstreamSent' = upstreamSent \o
       <<[type |-> "conversation.item.create",
          item |-> IF greetTimer = "greeting" THEN "greeting"
                   ELSE "welcome_back",
          role |-> "user", ctype |-> "input_text"],
         [type |-> "response.create"]>>
  /\ Push([sequence |-> messageSequence, role |-> "user",
           content |-> <<UserCh>>, timestamp |-> now], NoId)
  /\ clientSent' = <<>>
  /\ UNCHANGED <<connVars, turnVars, openaiWs, respState, interruptedIds,
                 erroredIds, saveVars, timerVars, envVars>>

\* The setTimeout callback armed by openaiWs.on('open').
GreetingTimeout ==
  /\ greetTimer # "none"
  /\ greetTimer' = "none"
  /\ upstreamSent' = upstreamSent \o
       <<[type |-> "conversation.item.create",
          item |-> IF greetTimer = "greeting" THEN "greeting"
                   ELSE "welcome_back",
          role |-> "user", ctype |-> "input_text"],
         [type |-> "response.create"]>>
  /\ clientSent' = <<>>
  /\ UNCHANGED <<connVars, turnVars, msgVars, openaiWs, respState,
                 interruptedIds, erroredIds, saveVars, timerVars, envVars>>

\* openaiWs.on('error'): the handshake or the connection failed.
UpstreamSocketError ==
  /\ clientWs = "open"
  /\ openaiWs \in {"connecting", "open"}
  /\ openaiWs' = "closing"
  /\ clientSent' = <<[type |-> "error", message |-> <<"connection error">>]>>
  /\ UNCHANGED <<connVars, turnVars, msgVars, greetTimer, upstreamSent,
                 respState, interruptedIds, erroredIds, saveVars, timerVars, envVars>>

\* openaiWs.on('close')
UpstreamClosed ==
  /\ openaiWs \in {"open", "closing"}
  /\ openaiWs' = "closed"
  /\ IF Len(Messages) > 0 /\ username
     THEN SaveRoom /\ SaveConversation(Messages, TRUE, "none")
     ELSE UNCHANGED saveVars
  /\ clientSent' = <<>>
  /\ UNCHANGED <<connVars, turnVars, msgVars, greetTimer, upstreamSent,
                 respState, interruptedIds, erroredIds, timerVars, envVars>>

AudioFrames ==
  Cardinality({i \in 1..Len(upstreamSent) :
                 upstreamSent[i].type = "input_audio_buffer.append"})

\* msg.audio: the base64 text of a frame.
AudioPayloads == {"frame a", "frame b"}

AudioQueuedUntilOpen(audio) ==
  /\ clientWs = "open"
  /\ AudioFrames < MaxAudio
  /\ upstreamSent' =
       IF openaiWs \in {"connecting", "open"}
       THEN Append(upstreamSent,
                   [type |-> "input_audio_buffer.append", audio |-> audio])
       ELSE upstreamSent
  /\ clientSent' = <<>>
  /\ UNCHANGED <<connVars, turnVars, msgVars, openaiWs, greetTimer, respState,
                 interruptedIds, erroredIds, saveVars, timerVars, envVars>>

\* clientWs.on('message'), type audio
Audio(audio) ==
  /\ clientWs = "open"
  /\ AudioFrames < MaxAudio
  /\ upstreamSent' =
       IF openaiWs # "null" /\ openaiWs = "open"
       THEN Append(upstreamSent,
                   [type |-> "input_audio_buffer.append", audio |-> audio])
       ELSE upstreamSent
  /\ clientSent' = <<>>
  /\ UNCHANGED <<connVars, turnVars, msgVars, openaiWs, greetTimer, respState,
                 interruptedIds, erroredIds, saveVars, timerVars, envVars>>

\* openaiWs.close()
CloseUpstream(ws) == IF ws \in {"connecting", "open"} THEN "closing" ELSE ws

\* The stop handler after its save: evict the session, close the upstream.
StopTail(requestNewSession, sessions) ==
  /\ activeSessions' =
       IF requestNewSession /\ sessionId # 0 THEN NoSession ELSE sessions
  /\ openaiWs' = CloseUpstream(openaiWs)
  /\ stopped' = IF requestNewSession THEN "stop_new" ELSE "stop"

\* clientWs.on('message'), type stop
Stop(requestNewSession) ==
  /\ clientWs = "open"
  /\ openaiWs \in {"connecting", "open"}
  /\ IF Len(Messages) > 0 /\ username /\ conversationId # 0
     THEN IF supabase
          THEN /\ SaveRoom
               /\ SaveConversation(Messages, TRUE,
                    IF requestNewSession THEN "stop_new" ELSE "stop")
               /\ UNCHANGED <<openaiWs, stopped>>
          ELSE /\ fallbackFile' =
                    SaveFallbackLocal(fallbackFile,
                                      ConversationData(Messages, Len(Messages), now))
               /\ StopTail(requestNewSession,
                           [messageCount |-> Len(Messages),
                            lastSaveTime |-> now])
               /\ UNCHANGED <<saves, store>>
     ELSE /\ StopTail(requestNewSession, activeSessions)
          /\ UNCHANGED <<saves, store, fallbackFile>>
  /\ clientSent' = <<>>
  /\ UNCHANGED <<idVars, turnVars, msgVars, greetTimer, upstreamSent,
                 respState, interruptedIds, erroredIds, timerVars, envVars>>

\* clientWs.on('message'), type emergency_save
EmergencySave ==
  /\ clientWs = "open"
  /\ IF Len(Messages) > 0 /\ username /\ conversationId # 0
     THEN SaveRoom /\ SaveConversation(Messages, TRUE, "none")
     ELSE UNCHANGED saveVars
  /\ rescued' = currentAssistantMessage.content
  /\ clientSent' = <<>>
  /\ UNCHANGED <<conn, clientWs, username, conversationId, sessionId,
                 isReconnection, hasMessages, previousMessages, stopped,
                 orphans,
                 turnVars, msgVars, upVars, timerVars, envVars>>

\* clientWs.on('error')
ClientError ==
  /\ clientWs = "open"
  /\ Len(Messages) > 0 /\ username /\ conversationId # 0
  /\ SaveRoom
  /\ SaveConversation(Messages, TRUE, "none")
  /\ clientSent' = <<>>
  /\ UNCHANGED <<connVars, turnVars, msgVars, upVars, timerVars, envVars>>

ClientCloseFlushesPartial ==
  /\ clientWs = "open"
  /\ clientWs' = "closed"
  /\ autoSaveInterval' = FALSE
  /\ LET m == [sequence |-> messageSequence,
               role |-> currentAssistantMessage.role,
               content |-> currentAssistantMessage.content,
               timestamp |-> currentAssistantMessage.timestamp,
               interrupted |-> FALSE]
         flush == currentAssistantMessage.content # <<>>
                    /\ Len(Messages) < MaxMsgs
         list == IF flush THEN Append(Messages, m) ELSE Messages
     IN /\ IF flush THEN Push(m, currentResponseId) ELSE UNCHANGED msgVars
        /\ IF Len(list) > 0 /\ username /\ conversationId # 0
           THEN SaveRoom /\ SaveConversation(list, TRUE, "none")
           ELSE UNCHANGED saveVars
  /\ evictTimers' = IF sessionId # 0 THEN evictTimers + 1 ELSE evictTimers
  /\ openaiWs' = CloseUpstream(openaiWs)
  /\ clientSent' = <<>>
  /\ UNCHANGED <<conn, username, conversationId, sessionId, isReconnection,
                 hasMessages, previousMessages, rescued, stopped, orphans,
                 turnVars, greetTimer,
                 upstreamSent, respState, interruptedIds, erroredIds,
                 lastSavedMessageCount, envVars>>

ClientCloseKeepsInterval ==
  /\ clientWs = "open"
  /\ clientWs' = "closed"
  /\ IF Len(Messages) > 0 /\ username /\ conversationId # 0
     THEN SaveRoom /\ SaveConversation(Messages, TRUE, "none")
     ELSE UNCHANGED saveVars
  /\ evictTimers' = IF sessionId # 0 THEN evictTimers + 1 ELSE evictTimers
  /\ openaiWs' = CloseUpstream(openaiWs)
  /\ clientSent' = <<>>
  /\ UNCHANGED <<conn, username, conversationId, sessionId, isReconnection,
                 hasMessages, previousMessages, rescued, stopped, orphans,
                 turnVars,
                 msgVars, greetTimer, upstreamSent, respState, interruptedIds,
                 erroredIds, autoSaveInterval, lastSavedMessageCount, envVars>>

\* clientWs.on('close')
ClientClose ==
  /\ clientWs = "open"
  /\ clientWs' = "closed"
  /\ autoSaveInterval' = FALSE
  /\ IF Len(Messages) > 0 /\ username /\ conversationId # 0
     THEN SaveRoom /\ SaveConversation(Messages, TRUE, "none")
     ELSE UNCHANGED saveVars
  /\ evictTimers' = IF sessionId # 0 THEN evictTimers + 1 ELSE evictTimers
  /\ openaiWs' = CloseUpstream(openaiWs)
  /\ clientSent' = <<>>
  /\ UNCHANGED <<conn, username, conversationId, sessionId, isReconnection,
                 hasMessages, previousMessages, rescued, stopped, orphans,
                 turnVars, msgVars, greetTimer,
                 upstreamSent, respState, interruptedIds, erroredIds,
                 lastSavedMessageCount, envVars>>

\* The setTimeout callback armed by clientWs.on('close').
EvictTimeout ==
  /\ evictTimers > 0
  /\ evictTimers' = evictTimers - 1
  /\ activeSessions' = NoSession
  /\ UNCHANGED <<connVars, turnVars, msgVars, upVars, saves, store,
                 fallbackFile, autoSaveInterval, lastSavedMessageCount,
                 envVars, clientSent>>

\* The setInterval callback of the connection.
AutoSaveTick ==
  /\ autoSaveInterval
  /\ conn > 0
  /\ Len(Messages) > lastSavedMessageCount /\ username /\ conversationId # 0
  /\ SaveRoom
  /\ SaveConversation(Messages, FALSE, "none")
  /\ lastSavedMessageCount' = Len(Messages)
  /\ UNCHANGED <<connVars, turnVars, msgVars, upVars, autoSaveInterval,
                 evictTimers, envVars, clientSent>>

\* Date.now() advances.
Tick ==
  /\ now < MaxTime
  /\ now' = now + TickMs
  /\ UNCHANGED <<connVars, turnVars, msgVars, upVars, saveVars, timerVars,
                 variant, supabase, client, clientSent>>

\* --------------------------------------------- saveConversation, the rest
Remove(q, i) == SubSeq(q, 1, i - 1) \o SubSeq(q, i + 1, Len(q))

\* The save returns; a stop handler awaiting it resumes.
Finish(i) ==
  /\ saves' = Remove(saves, i)
  /\ IF saves[i].waiter = "none"
     THEN UNCHANGED <<activeSessions, openaiWs, stopped>>
     ELSE /\ activeSessions' =
               IF saves[i].waiter = "stop_new" THEN NoSession
               ELSE activeSessions
          /\ openaiWs' =
               IF saves[i].conn = conn THEN CloseUpstream(openaiWs)
               ELSE openaiWs
          /\ stopped' =
               IF saves[i].conn = conn THEN saves[i].waiter ELSE stopped

\* The live array a save was given.
SavedArray(i) == conversationMessages[saves[i].conn]

SelectOkSameLength(i) ==
  /\ i \in 1..Len(saves)
  /\ saves[i].pc = "select"
  /\ IF store # NoRecord
     THEN IF Len(SavedArray(i)) >= store.total_messages
          THEN /\ saves' = [saves EXCEPT
                     ![i].pc = "update",
                     ![i].existing = store.total_messages,
                     ![i].body = ConversationData(SavedArray(i), saves[i].total, saves[i].at)]
               /\ UNCHANGED <<activeSessions, openaiWs, stopped>>
          ELSE Finish(i)
     ELSE /\ saves' = [saves EXCEPT
                ![i].pc = "insert",
                ![i].body = ConversationData(SavedArray(i), saves[i].total, saves[i].at)]
          /\ UNCHANGED <<activeSessions, openaiWs, stopped>>
  /\ UNCHANGED <<idVars, turnVars, msgVars, greetTimer, upstreamSent,
                 respState, interruptedIds, erroredIds, store, fallbackFile, timerVars,
                 envVars, clientSent>>

SelectOkAlwaysUpdates(i) ==
  /\ i \in 1..Len(saves)
  /\ saves[i].pc = "select"
  /\ saves' = [saves EXCEPT
        ![i].pc = IF store # NoRecord THEN "update" ELSE "insert",
        ![i].existing = store.total_messages,
        ![i].body = ConversationData(SavedArray(i), saves[i].total, saves[i].at)]
  /\ UNCHANGED <<connVars, turnVars, msgVars, upVars, store, fallbackFile,
                 activeSessions, timerVars, envVars, clientSent>>

\* The select of one attempt answers; the comparison reads the length of the
\* live array.
SelectOk(i) ==
  /\ i \in 1..Len(saves)
  /\ saves[i].pc = "select"
  /\ IF store # NoRecord
     THEN IF Len(SavedArray(i)) > store.total_messages
          THEN /\ saves' = [saves EXCEPT
                     ![i].pc = "update",
                     ![i].existing = store.total_messages,
                     ![i].body = ConversationData(SavedArray(i), saves[i].total, saves[i].at)]
               /\ UNCHANGED <<activeSessions, openaiWs, stopped>>
          ELSE Finish(i)
     ELSE /\ saves' = [saves EXCEPT
                ![i].pc = "insert",
                ![i].body = ConversationData(SavedArray(i), saves[i].total, saves[i].at)]
          /\ UNCHANGED <<activeSessions, openaiWs, stopped>>
  /\ UNCHANGED <<idVars, turnVars, msgVars, greetTimer, upstreamSent,
                 respState, interruptedIds, erroredIds, store, fallbackFile, timerVars,
                 envVars, clientSent>>

\* The update answers without error.
UpdateOk(i) ==
  /\ i \in 1..Len(saves)
  /\ saves[i].pc = "update"
  /\ store' = saves[i].body
  /\ Finish(i)
  /\ UNCHANGED <<idVars, turnVars, msgVars, greetTimer, upstreamSent,
                 respState, interruptedIds, erroredIds, fallbackFile, timerVars, envVars,
                 clientSent>>

\* The insert answers: the row is created, or the unique key rejects it
\* (23505), which the code lets pass.
InsertOk(i) ==
  /\ i \in 1..Len(saves)
  /\ saves[i].pc = "insert"
  /\ store' = IF store = NoRecord THEN saves[i].body ELSE store
  /\ Finish(i)
  /\ UNCHANGED <<idVars, turnVars, msgVars, greetTimer, upstreamSent,
                 respState, interruptedIds, erroredIds, fallbackFile, timerVars, envVars,
                 clientSent>>

AttemptFailsRethrows(i) ==
  /\ i \in 1..Len(saves)
  /\ IF saves[i].attempt = MAX_RETRIES - 1
     THEN /\ saves' = Remove(saves, i)
          /\ UNCHANGED <<fallbackFile, activeSessions, openaiWs, stopped>>
     ELSE /\ saves' = [saves EXCEPT ![i].attempt = @ + 1,
                                    ![i].pc = "select",
                                    ![i].existing = NoRecord.total_messages,
                                    ![i].body = NoRecord]
          /\ UNCHANGED <<fallbackFile, activeSessions, openaiWs, stopped>>
  /\ UNCHANGED <<idVars, turnVars, msgVars, greetTimer, upstreamSent,
                 respState, interruptedIds, erroredIds, store, timerVars, envVars,
                 clientSent>>

AttemptFailsRetriesForever(i) ==
  /\ i \in 1..Len(saves)
  /\ saves' = [saves EXCEPT ![i].attempt = @ + 1,
                             ![i].pc = "select",
                             ![i].existing = NoRecord.total_messages,
                             ![i].body = NoRecord]
  /\ UNCHANGED <<fallbackFile, activeSessions, openaiWs, stopped>>
  /\ UNCHANGED <<idVars, turnVars, msgVars, greetTimer, upstreamSent,
                 respState, interruptedIds, erroredIds, store, timerVars, envVars,
                 clientSent>>

\* A request of the attempt fails: retryOperation tries again, and after the
\* last attempt saveConversation falls back to the local file.
AttemptFails(i) ==
  /\ i \in 1..Len(saves)
  /\ IF saves[i].attempt = MAX_RETRIES - 1
     THEN /\ fallbackFile' =
               SaveFallbackLocal(fallbackFile,
                 ConversationData(SavedArray(i), saves[i].total, saves[i].at))
          /\ Finish(i)
     ELSE /\ saves' = [saves EXCEPT ![i].attempt = @ + 1,
                                    ![i].pc = "select",
                                    ![i].existing = NoRecord.total_messages,
                                    ![i].body = NoRecord]
          /\ UNCHANGED <<fallbackFile, activeSessions, openaiWs, stopped>>
  /\ UNCHANGED <<idVars, turnVars, msgVars, greetTimer, upstreamSent,
                 respState, interruptedIds, erroredIds, store, timerVars, envVars,
                 clientSent>>

\* The store applies the update or the insert of the attempt, but the request
\* reports an error (the answer is lost): the attempt counts as failed.
ResponseLost(i) ==
  /\ i \in 1..Len(saves)
  /\ \/ saves[i].pc = "update"
     \/ saves[i].pc = "insert" /\ store = NoRecord
  /\ store' = saves[i].body
  /\ IF saves[i].attempt = MAX_RETRIES - 1
     THEN /\ fallbackFile' =
               SaveFallbackLocal(fallbackFile,
                 ConversationData(SavedArray(i), saves[i].total, saves[i].at))
          /\ Finish(i)
     ELSE /\ saves' = [saves EXCEPT ![i].attempt = @ + 1,
                                    ![i].pc = "select",
                                    ![i].existing = NoRecord.total_messages,
                                    ![i].body = NoRecord]
          /\ UNCHANGED <<fallbackFile, activeSessions, openaiWs, stopped>>
  /\ UNCHANGED <<idVars, turnVars, msgVars, greetTimer, upstreamSent,
                 respState, interruptedIds, erroredIds, timerVars, envVars,
                 clientSent>>

\* A request of the last attempt fails and the local write throws as well:
\* saveFallbackLocal catches the error and the save returns.
FallbackFails(i) ==
  /\ i \in 1..Len(saves)
  /\ saves[i].attempt = MAX_RETRIES - 1
  /\ Finish(i)
  /\ UNCHANGED <<idVars, turnVars, msgVars, greetTimer, upstreamSent,
                 respState, interruptedIds, erroredIds, store, fallbackFile,
                 timerVars, envVars, clientSent>>

\* ------------------------------------------------------- the page script
\* The script's variables when the page has loaded.
PageLoaded(cv) ==
  [cv |-> cv,
   isSessionActive |-> FALSE,       \* isRecording in part_000
   isPaused |-> FALSE,
   ws |-> "none",                   \* "none" | "connecting" | "open" | "closing" | "closed"
   sockets |-> 0,
   reconnectAttempts |-> 0,
   reconnectTimers |-> 0,           \* armed setTimeout(..., RECONNECT_DELAY)
   connectionTimeout |-> FALSE,
   isFirstConnection |-> TRUE,
   currentSessionId |-> 0,          \* 0 = null
   persistentConversationId |-> 0,  \* 0 = null
   hasActiveConversation |-> FALSE,
   started |-> <<>>]

\* stopRecording of part_000: sends stop and closes the socket if it is open.
StopRecording(c) ==
  [c EXCEPT !.isSessionActive = FALSE,
            !.connectionTimeout = FALSE,
            !.ws = IF c.ws = "open" THEN "closing" ELSE c.ws]

\* cleanup of each script; part_000 is called with preserveState.
Cleanup(c, preserveState) ==
  IF c.cv = "part_000"
  THEN IF preserveState THEN StopRecording(c)
       ELSE [StopRecording(c) EXCEPT !.persistentConversationId = 0,
                                     !.hasActiveConversation = FALSE,
                                     !.isFirstConnection = TRUE]
  ELSE [c EXCEPT !.isSessionActive = FALSE,
                 !.isPaused = FALSE,
                 !.ws = IF c.ws = "open" THEN "closing" ELSE c.ws]

\* startSession / startRecording up to new WebSocket(...).
StartSession(c) ==
  IF c.isSessionActive THEN c
  ELSE [c EXCEPT !.isSessionActive = TRUE,
                 !.isPaused = FALSE,
                 !.ws = "connecting",
                 !.sockets = @ + 1,
                 !.connectionTimeout = (c.cv = "part_000")]

\* The click handler of the voice button.
VoiceButton ==
  /\ client.isSessionActive \/ client.sockets < MaxSockets
  /\ client' =
       IF client.cv = "script_js"
       THEN IF ~client.isSessionActive THEN StartSession(client)
            ELSE [client EXCEPT !.isPaused = ~@]
       ELSE IF client.isSessionActive THEN StopRecording(client)
            ELSE StartSession(client)
  /\ UNCHANGED serverVars

\* The start message ws.onopen sends.
StartMessage(c) ==
  LET sid == IF c.currentSessionId = 0 THEN 1 ELSE c.currentSessionId
  IN [type |-> "start",
      sessionId |-> sid,
      conversationId |-> IF c.persistentConversationId = 0 THEN sid
                         ELSE c.persistentConversationId,
      isReconnection |-> ~c.isFirstConnection,
      hasMessages |-> IF c.cv = "script_js" THEN ~c.isFirstConnection
                      ELSE c.hasActiveConversation]

\* ws.onopen; micOk: getUserMedia and the audio set-up succeed.
WsOnOpen(micOk) ==
  /\ client.ws = "connecting"
  /\ LET msg == StartMessage(client)
         opened == [client EXCEPT !.ws = "open",
                                  !.reconnectAttempts = 0,
                                  !.connectionTimeout = FALSE,
                                  !.currentSessionId = msg.sessionId,
                                  !.persistentConversationId = msg.conversationId,
                                  !.isFirstConnection = FALSE,
                                  !.started = Append(@, msg)]
     IN client' = IF micOk THEN opened ELSE Cleanup(opened, FALSE)
  /\ UNCHANGED serverVars

\* event.code of a close event: normal closure, or the connection was lost.
CloseCodes == {1000, 1006}

\* ws.onclose
WsOnClose(code) ==
  /\ client.ws \in {"connecting", "open", "closing"}
  /\ LET c == [client EXCEPT !.ws = "closed"]
         again == [c EXCEPT !.reconnectAttempts = @ + 1,
                            !.reconnectTimers = @ + 1]
     IN client' =
          IF c.cv = "script_js"
          THEN IF c.isSessionActive /\ code # 1000
                    /\ c.reconnectAttempts < MAX_RECONNECT_ATTEMPTS
               THEN again
               ELSE Cleanup(c, TRUE)
          ELSE IF c.isSessionActive
               THEN IF c.reconnectAttempts < MAX_RECONNECT_ATTEMPTS
                    THEN again
                    ELSE Cleanup(c, FALSE)
               ELSE c
  /\ UNCHANGED serverVars

\* The setTimeout callback armed by ws.onclose.
ReconnectTimeout ==
  /\ client.reconnectTimers > 0
  /\ LET c == [client EXCEPT !.reconnectTimers = @ - 1]
     IN client' = IF c.isSessionActive THEN StartSession(c) ELSE c
  /\ UNCHANGED serverVars

\* The connection timeout of part_000 (10 s after new WebSocket).
ConnectionTimeout ==
  /\ client.connectionTimeout
  /\ client' =
       IF client.ws # "open"
       THEN Cleanup([client EXCEPT
                       !.ws = IF @ = "connecting" THEN "closing" ELSE @],
                    FALSE)
       ELSE [client EXCEPT !.connectionTimeout = FALSE]
  /\ UNCHANGED serverVars

\* ws.onmessage of part_000: user_transcription or assistant_transcript_delta.
WsOnMessage ==
  /\ client.cv = "part_000"
  /\ client.ws = "open"
  /\ client' = [client EXCEPT !.hasActiveConversation = TRUE]
  /\ UNCHANGED serverVars

\* The page: the user's clicks, the sockets opening and closing, the timers.
ClientNext ==
  \/ VoiceButton
  \/ \E micOk \in BOOLEAN : WsOnOpen(micOk)
  \/ \E code \in CloseCodes : WsOnClose(code)
  \/ ReconnectTimeout
  \/ ConnectionTimeout
  \/ WsOnMessage

\* ------------------------------------------------------------ the system
Init ==
  /\ variant \in Variants
  /\ supabase \in BOOLEAN
  /\ now = TickMs
  /\ conn = 0
  /\ clientWs = "none"
  /\ username = FALSE
  /\ conversationId = 0
  /\ sessionId = 0
  /\ conversationMessages = [c \in 1..MaxConns |-> <<>>]
  /\ messageSequence = 0
  /\ openaiWs = "null"
  /\ activeResponse = FALSE
  /\ currentResponseId = NoId
  /\ currentAssistantMessage = EmptyAssistantMessage
  /\ isReconnection = FALSE
  /\ hasMessages = FALSE
  /\ previousMessages = <<>>
  /\ greetTimer = "none"
  /\ autoSaveInterval = FALSE
  /\ lastSavedMessageCount = 0
  /\ upstreamSent = <<>>
  /\ clientSent = <<>>
  /\ respState = [r \in 1..MaxResp |-> "none"]
  /\ interruptedIds = {}
  /\ erroredIds = {}
  /\ rescued = <<>>
  /\ stopped = "no"
  /\ orphans = 0
  /\ saves = <<>>
  /\ store = NoRecord
  /\ fallbackFile = NoRecord
  /\ activeSessions = NoSession
  /\ evictTimers = 0
  /\ accDeltas = <<>>
  /\ accComplete = <<>>
  /\ accLate = FALSE
  /\ client \in {PageLoaded(cv) : cv \in ClientVariants}
  /\ assigned = <<>>

Deltas(r) == {<<r>>, <<Space>>}

CompleteTranscripts(r) == {[i \in 1..n |-> r] : n \in 1..MaxTranscript}

UserTranscripts == {<<UserCh>>, <<UserCh, UserCh>>}

\* event.error of the upstream engine's error events.
ErrorTypes == {"invalid_request_error", "server_error"}

ErrorMessages ==
  {<<"buffer too small">>, <<"no", "active response", "found">>,
   <<"rate limit">>, <<"server">>}

UpstreamEvent ==
  \/ SpeechStarted
  \/ TranscriptionCompleted(<<UserCh>>)
  \/ \E r \in 1..MaxResp : ResponseCreated(r)
  \/ \E r \in 1..MaxResp : \E d \in Deltas(r) : TranscriptDelta(r, d)
  \/ \E r \in 1..MaxResp : \E t \in CompleteTranscripts(r) :
       AudioTranscriptDone(r, t)
  \/ \E r \in 1..MaxResp : AudioDelta(r)
  \/ \E r \in 1..MaxResp : ResponseDone(r)
  \/ \E ty \in ErrorTypes, msg \in ErrorMessages : UpstreamError(ty, msg)
  \/ ResponseCancelled

SaveAnswer ==
  \/ \E i \in 1..MaxPending : SelectOk(i)
  \/ \E i \in 1..MaxPending : UpdateOk(i)
  \/ \E i \in 1..MaxPending : InsertOk(i)

SaveStep == SaveAnswer \/ \E i \in 1..MaxPending : AttemptFails(i)

Lifecycle ==
  \/ Connect
  \/ \E isRec \in BOOLEAN, hasMsg \in BOOLEAN, prev \in PreviousChoices :
       Start(isRec, hasMsg, prev)
  \/ UpstreamOpened
  \/ GreetingTimeout
  \/ UpstreamSocketError
  \/ UpstreamClosed
  \/ \E a \in AudioPayloads : Audio(a)
  \/ \E rn \in BOOLEAN : Stop(rn)
  \/ EmergencySave
  \/ ClientError
  \/ ClientClose
  \/ EvictTimeout
  \/ AutoSaveTick

\* The whole server.
Next ==
  \/ Lifecycle
  \/ UpstreamEvent
  \/ \E t \in UserTranscripts : TranscriptionCompleted(t)
  \/ SaveStep
  \/ \E i \in 1..MaxPending : FallbackFails(i)
  \/ \E i \in 1..MaxPending : ResponseLost(i)
  \/ \E isRec \in BOOLEAN, hasMsg \in BOOLEAN, prev \in PreviousChoices :
       Restart(isRec, hasMsg, prev)
  \/ OrphanTranscriptionCompleted(<<UserCh>>)
  \/ OrphanClosed
  \/ ClientNext
  \/ Tick

Spec == Init /\ [][Next]_vars

\* A connection after start, its upstream open and the greeting sent.
Started(v, sb) ==
  /\ variant = v
  /\ supabase = sb
  /\ now = TickMs
  /\ conn = 1
  /\ clientWs = "open"
  /\ username = TRUE
  /\ conversationId = 1
  /\ sessionId = 1
  /\ conversationMessages = [c \in 1..MaxConns |-> <<>>]
  /\ messageSequence = 0
  /\ openaiWs = "open"
  /\ activeResponse = FALSE
  /\ currentResponseId = NoId
  /\ currentAssistantMessage = EmptyAssistantMessage
  /\ isReconnection = FALSE
  /\ hasMessages = FALSE
  /\ previousMessages = <<>>
  /\ greetTimer = "none"
  /\ autoSaveInterval = TRUE
  /\ lastSavedMessageCount = 0
  /\ upstreamSent =
       <<[type |-> "session.update"],
         [type |-> "conversation.item.create", item |-> "greeting",
          role |-> "user", ctype |-> "input_text"],
         [type |-> "response.create"]>>
  /\ clientSent = <<>>
  /\ respState = [r \in 1..MaxResp |-> "none"]
  /\ interruptedIds = {}
  /\ erroredIds = {}
  /\ rescued = <<>>
  /\ stopped = "no"
  /\ orphans = 0
  /\ saves = <<>>
  /\ store = NoRecord
  /\ fallbackFile = NoRecord
  /\ activeSessions = NoSession
  /\ evictTimers = 0
  /\ accDeltas = <<>>
  /\ accComplete = <<>>
  /\ accLate = FALSE
  /\ client = PageLoaded("script_js")
  /\ assigned = <<>>

\* The dialogue bridge of one connection of server.js: every upstream event,
\* in any order.  The store client was not created, so each forced save
\* writes the local file before the handler returns.
InitBridge == Started("server_js", FALSE)

NextBridge == UpstreamEvent

SpecBridge == InitBridge /\ [][NextBridge]_vars

\* The conversation across connections: disconnect, reconnect and resume,
\* with the saves answered by the store.
NextReconnect ==
  \/ Connect
  \/ \E isRec \in BOOLEAN, hasMsg \in BOOLEAN, prev \in PreviousChoices :
       Start(isRec, hasMsg, prev)
  \/ UpstreamOpened
  \/ \E t \in UserTranscripts : TranscriptionCompleted(t)
  \/ ClientClose
  \/ UpstreamClosed
  \/ SaveAnswer

InitReconnect == Init /\ supabase

SpecReconnect == InitReconnect /\ [][NextReconnect]_vars

\* The start of a connection: the startup decision for every start message.
\* The client was connected before, and shows the transcript of that
\* connection, which is drawn from the well-formed transcripts.
PriorMessage(i, role) ==
  IF role = "user"
  THEN [sequence |-> i - 1, role |-> "user", content |-> <<UserCh>>,
        timestamp |-> TickMs]
  ELSE [sequence |-> i - 1, role |-> "assistant", content |-> <<1>>,
        timestamp |-> TickMs, interrupted |-> FALSE]

PriorTranscripts ==
  UNION {{[i \in 1..n |-> PriorMessage(i, f[i])] :
            f \in [1..n -> {"user", "assistant"}]} : n \in 0..MaxMsgs}

InitStartup ==
  /\ variant \in Variants
  /\ supabase = FALSE
  /\ now = TickMs
  /\ conn = 1
  /\ clientWs = "closed"
  /\ username = TRUE
  /\ conversationId = 1
  /\ sessionId = 1
  /\ \E prior \in PriorTranscripts :
       /\ conversationMessages = [c \in 1..MaxConns |->
                                    IF c = 1 THEN prior ELSE <<>>]
       /\ messageSequence = Len(prior)
       /\ lastSavedMessageCount = 0
       /\ fallbackFile = IF prior = <<>> THEN NoRecord
                         ELSE ConversationData(prior, Len(prior), TickMs)
       /\ assigned = [i \in 1..Len(prior) |->
                        [conn |-> 1, sequence |-> i - 1,
                         by |-> IF prior[i].role = "user" THEN NoId ELSE 1]]
  /\ openaiWs = "closed"
  /\ activeResponse = FALSE
  /\ currentResponseId = NoId
  /\ currentAssistantMessage = EmptyAssistantMessage
  /\ isReconnection = FALSE
  /\ hasMessages = FALSE
  /\ previousMessages = <<>>
  /\ greetTimer = "none"
  /\ autoSaveInterval = FALSE
  /\ upstreamSent = <<[type |-> "session.update"]>>
  /\ clientSent = <<>>
  /\ respState = [r \in 1..MaxResp |-> "none"]
  /\ interruptedIds = {}
  /\ erroredIds = {}
  /\ rescued = <<>>
  /\ stopped = "no"
  /\ orphans = 0
  /\ saves = <<>>
  /\ store = NoRecord
  /\ activeSessions = NoSession
  /\ evictTimers = 0
  /\ accDeltas = <<>>
  /\ accComplete = <<>>
  /\ accLate = FALSE
  /\ client = PageLoaded("script_js")

NextStartup ==
  \/ Connect
  \/ \E isRec \in BOOLEAN, hasMsg \in BOOLEAN, prev \in PreviousChoices :
       Start(isRec, hasMsg, prev)
  \/ UpstreamOpened
  \/ GreetingTimeout
  \/ \E a \in AudioPayloads : Audio(a)
  \/ \E r \in 1..MaxResp : ResponseCreated(r)

SpecStartup == InitStartup /\ [][NextStartup]_vars

\* The opening of a conversation in which the user never speaks: the start,
\* the startup decision and the turns of the upstream engine.
InitGreeting == Init /\ ~supabase

NextGreeting ==
  \/ Connect
  \/ \E isRec \in BOOLEAN, hasMsg \in BOOLEAN : Start(isRec, hasMsg, <<>>)
  \/ UpstreamOpened
  \/ GreetingTimeout
  \/ \E r \in 1..MaxResp : ResponseCreated(r)
  \/ \E r \in 1..MaxResp : \E d \in Deltas(r) : TranscriptDelta(r, d)
  \/ \E r \in 1..MaxResp : \E t \in CompleteTranscripts(r) :
       AudioTranscriptDone(r, t)
  \/ \E r \in 1..MaxResp : AudioDelta(r)
  \/ \E r \in 1..MaxResp : ResponseDone(r)

SpecGreeting == InitGreeting /\ [][NextGreeting]_vars

\* The end of a connection: turns in progress, emergency_save, the client
\* and upstream sockets closing, and the saves they start.
InitDisconnect == \E v \in Variants : Started(v, TRUE)

NextDisconnect ==
  \/ TranscriptionCompleted(<<UserCh>>)
  \/ ResponseCreated(1)
  \/ \E d \in Deltas(1) : TranscriptDelta(1, d)
  \/ ResponseDone(1)
  \/ EmergencySave
  \/ ClientError
  \/ ClientClose
  \/ UpstreamClosed
  \/ SaveStep

SpecDisconnect == InitDisconnect /\ [][NextDisconnect]_vars

\* The life of a session: audio and user turns, stop, the sockets closing,
\* the timers of the connection and of the registry, and a reconnection.
InitSession == \E v \in Variants : Started(v, FALSE)

NextSession ==
  \/ TranscriptionCompleted(<<UserCh>>)
  \/ \E a \in AudioPayloads : Audio(a)
  \/ \E rn \in BOOLEAN : Stop(rn)
  \/ ClientClose
  \/ UpstreamClosed
  \/ EvictTimeout
  \/ AutoSaveTick
  \/ Connect
  \/ \E isRec \in BOOLEAN, hasMsg \in BOOLEAN, prev \in PreviousChoices :
       Start(isRec, hasMsg, prev)
  \/ UpstreamOpened

SpecSession == InitSession /\ [][NextSession]_vars

\* The end of a session with the store: stop awaits its save, then the
\* sockets close; the timers of the connection and of the registry run.
InitStop == \E v \in Variants : Started(v, TRUE)

NextStop ==
  \/ TranscriptionCompleted(<<UserCh>>)
  \/ \E rn \in BOOLEAN : Stop(rn)
  \/ ClientClose
  \/ UpstreamClosed
  \/ EvictTimeout
  \/ AutoSaveTick
  \/ SaveAnswer

SpecStop == InitStop /\ [][NextStop]_vars

\* Forced saves: every handler that flushes the transcript, the auto-save
\* timer beside them, and the store answering each request.
InitForce == Started("server_js", TRUE)

NextForce ==
  \/ SpeechStarted
  \/ TranscriptionCompleted(<<UserCh>>)
  \/ ResponseCreated(1)
  \/ TranscriptDelta(1, <<1>>)
  \/ ResponseDone(1)
  \/ \E rn \in BOOLEAN : Stop(rn)
  \/ EmergencySave
  \/ ClientClose
  \/ UpstreamClosed
  \/ AutoSaveTick
  \/ SaveAnswer

SpecForce == InitForce /\ [][NextForce]_vars

\* Persistence failing: saves begun during a live turn, by a user turn,
\* emergency_save or stop, with the store and the local file failing.
InitFailure == Started("server_js", TRUE)

NextFailure ==
  \/ TranscriptionCompleted(<<UserCh>>)
  \/ ResponseCreated(1)
  \/ TranscriptDelta(1, <<1>>)
  \/ \E rn \in BOOLEAN : Stop(rn)
  \/ EmergencySave
  \/ SaveStep
  \/ \E i \in 1..MaxPending : FallbackFails(i)

SpecFailure == InitFailure /\ [][NextFailure]_vars

\* The dedupe check of the auto-save timer.  The registry is keyed by the
\* sessionId the client sends, so its entry is whatever the connections using
\* that sessionId left: any count, written when this connection last saved.
\* This connection has saved its transcript under its own conversationId.
SessionRecords ==
  {[messageCount |-> c, lastSaveTime |-> TickMs] : c \in 1..(MaxMsgs + 1)}

InitDebounce ==
  /\ variant \in Variants
  /\ supabase = TRUE
  /\ now = TickMs
  /\ conn = 1
  /\ clientWs = "open"
  /\ username = TRUE
  /\ conversationId = 1
  /\ sessionId = 1
  /\ \E n \in 1..(MaxMsgs - 1) :
       LET prior == [i \in 1..n |-> PriorMessage(i, "user")]
       IN /\ conversationMessages = [c \in 1..MaxConns |->
                                       IF c = 1 THEN prior ELSE <<>>]
          /\ messageSequence = n
          /\ store = ConversationData(prior, n, TickMs)
          /\ assigned = [i \in 1..n |->
                           [conn |-> 1, sequence |-> i - 1, by |-> NoId]]
  /\ activeSessions \in SessionRecords
  /\ lastSavedMessageCount = 0
  /\ openaiWs = "open"
  /\ activeResponse = FALSE
  /\ currentResponseId = NoId
  /\ currentAssistantMessage = EmptyAssistantMessage
  /\ isReconnection = FALSE
  /\ hasMessages = FALSE
  /\ previousMessages = <<>>
  /\ greetTimer = "none"
  /\ autoSaveInterval = TRUE
  /\ upstreamSent =
       <<[type |-> "session.update"],
         [type |-> "conversation.item.create", item |-> "greeting",
          role |-> "user", ctype |-> "input_text"],
         [type |-> "response.create"]>>
  /\ clientSent = <<>>
  /\ respState = [r \in 1..MaxResp |-> "none"]
  /\ interruptedIds = {}
  /\ erroredIds = {}
  /\ rescued = <<>>
  /\ stopped = "no"
  /\ orphans = 0
  /\ saves = <<>>
  /\ fallbackFile = NoRecord
  /\ evictTimers = 0
  /\ accDeltas = <<>>
  /\ accComplete = <<>>
  /\ accLate = FALSE
  /\ client = PageLoaded("script_js")

NextDebounce ==
  \/ AutoSaveTick
  \/ TranscriptionCompleted(<<UserCh>>)
  \/ \E i \in 1..MaxPending : SelectOk(i)
  \/ \E i \in 1..MaxPending : UpdateOk(i)
  \/ Tick

SpecDebounce == InitDebounce /\ [][NextDebounce]_vars

\* Error events of the upstream engine among the events of the turns.
NextErrors ==
  \/ SpeechStarted
  \/ TranscriptionCompleted(<<UserCh>>)
  \/ \E r \in 1..MaxResp : ResponseCreated(r)
  \/ \E r \in 1..MaxResp : TranscriptDelta(r, <<r>>)
  \/ \E r \in 1..MaxResp : ResponseDone(r)
  \/ \E ty \in ErrorTypes, msg \in ErrorMessages : UpstreamError(ty, msg)
  \/ ResponseCancelled

SpecErrors == InitBridge /\ [][NextErrors]_vars

\* Overlapping turns: the upstream engine creates a response while the
\* previous one is still streaming.  Nothing but response.done ends a turn
\* here, and the clock runs, so that the turns have different timestamps.
InitOverlap == \E v \in Variants : Started(v, FALSE)

NextOverlap ==
  \/ \E r \in 1..MaxResp : ResponseCreated(r)
  \/ \E r \in 1..MaxResp : \E d \in Deltas(r) : TranscriptDelta(r, d)
  \/ \E r \in 1..MaxResp : \E t \in CompleteTranscripts(r) :
       AudioTranscriptDone(r, t)
  \/ \E r \in 1..MaxResp : ResponseDone(r)
  \/ Tick

SpecOverlap == InitOverlap /\ [][NextOverlap]_vars

\* The local fallback: saves of one connection with the store client missing,
\* or with the store failing or answering each request.
InitFallback == \E sb \in BOOLEAN : Started("server_js", sb)

NextFallback ==
  \/ TranscriptionCompleted(<<UserCh>>)
  \/ EmergencySave
  \/ SaveStep

SpecFallback == InitFallback /\ [][NextFallback]_vars

\* retryOperation: the saves of the user turns of one connection, each
\* request answered, failed or applied without answer.  Every request made
\* to the store ends (it answers or times out) and every retry timer fires.
InitRetry == Started("server_js", TRUE)

RetryStep == SaveStep \/ \E i \in 1..MaxPending : ResponseLost(i)

NextRetry == TranscriptionCompleted(<<UserCh>>) \/ RetryStep

SpecRetry == InitRetry /\ [][NextRetry]_vars /\ WF_vars(RetryStep)

\* Client messages and upstream events on the transcript: connections that
\* start once or again, the turns of the upstream engine, saves and closes.
\* There is no store client: each save writes the local file at once.
InitRestart == \E v \in Variants : Started(v, FALSE)

NextRestart ==
  \/ \E isRec \in BOOLEAN, hasMsg \in BOOLEAN, prev \in PreviousChoices :
       Restart(isRec, hasMsg, prev)
  \/ UpstreamOpened
  \/ SpeechStarted
  \/ TranscriptionCompleted(<<UserCh>>)
  \/ ResponseCreated(1)
  \/ TranscriptDelta(1, <<1>>)
  \/ ResponseDone(1)
  \/ OrphanTranscriptionCompleted(<<UserCh>>)
  \/ OrphanClosed
  \/ EmergencySave
  \/ \E rn \in BOOLEAN : Stop(rn)
  \/ ClientClose
  \/ UpstreamClosed

SpecRestart == InitRestart /\ [][NextRestart]_vars

\* Everything the server sends upstream: the session configuration and the
\* replay at open, the timer's greeting, response.cancel and audio, with stop
\* and the sockets closing at any moment.
InitSends == Init /\ ~supabase

NextSends ==
  \/ Connect
  \/ \E isRec \in BOOLEAN, hasMsg \in BOOLEAN, prev \in PreviousChoices :
       Start(isRec, hasMsg, prev)
  \/ UpstreamOpened
  \/ GreetingTimeout
  \/ ResponseCreated(1)
  \/ SpeechStarted
  \/ \E a \in AudioPayloads : Audio(a)
  \/ \E rn \in BOOLEAN : Stop(rn)
  \/ ClientClose
  \/ UpstreamClosed

SpecSends == InitSends /\ [][NextSends]_vars

\* The page's script alone, either revision: clicks, sockets that open, are
\* closed or never open, and the timers.  The microphone is granted.
InitClient == Init /\ variant = "server_js" /\ ~supabase

NextClient ==
  \/ VoiceButton
  \/ WsOnOpen(TRUE)
  \/ \E code \in CloseCodes : WsOnClose(code)
  \/ ReconnectTimeout
  \/ ConnectionTimeout
  \/ WsOnMessage

SpecClient == InitClient /\ [][NextClient]_vars

\* The transcript store adapter: saves of one connection, answered or failed
\* by the store in any order.
NextStore ==
  \/ TranscriptionCompleted(<<UserCh>>)
  \/ EmergencySave
  \/ SaveStep
  \/ Tick

InitStore == \E v \in Variants : Started(v, TRUE)

SpecStore == InitStore /\ [][NextStore]_vars

\* ================================================================ claims
NonAudio(log) == SelectSeq(log, LAMBDA m : m.type # "input_audio_buffer.append")

Count(log, P(_)) == Cardinality({i \in 1..Len(log) : P(log[i])})

\* C1: in every state of a connection the i-th message of its transcript
\* carries sequence number i (counted from 0): no gap and no repeat,
\* whatever upstream events arrived.
C1_SequenceEqualsPosition ==
  \A i \in 1..Len(Messages) : Messages[i].sequence = i - 1

C1_Witness ==
  /\ Len(Messages) = 2
  /\ Messages[1].role = "assistant" /\ Messages[1].interrupted
  /\ Messages[2].role = "user"

\* C2: a turn interrupted by speech_started leaves exactly one message in
\* the transcript, the sealed one (assistant, interrupted, content ending in
\* the ellipsis marker); no later event appends a second message for it.
C2_InterruptedTurnHasOneMessage ==
  \A r \in interruptedIds :
    LET mine == {i \in 1..Len(assigned) :
                   assigned[i].conn = conn /\ assigned[i].by = r}
    IN /\ Cardinality(mine) = 1
       /\ \A i \in mine :
            LET m == Messages[assigned[i].sequence + 1]
            IN /\ m.role = "assistant"
               /\ m.interrupted
               /\ Len(m.content) >= 3
               /\ SubSeq(m.content, Len(m.content) - 2, Len(m.content))
                    = Ellipsis

\* C3: text that arrives for a response after it was interrupted is
\* discarded: it is in no accumulator and in no message but the sealed one.
C3_StaleDeltasDiscarded ==
  \A r \in interruptedIds :
    /\ r \notin Chars(currentAssistantMessage.content)
    /\ \A i \in 1..Len(Messages) :
         r \in Chars(Messages[i].content) => Messages[i].interrupted

\* The message a response.done appends in this step.
LastNew == conversationMessages'[conn][Len(Messages) + 1]

Finalizes ==
  /\ Len(conversationMessages'[conn]) = Len(Messages) + 1
  /\ LastNew.role = "assistant"
  /\ ~LastNew.interrupted

Longer(t, d) == IF Len(t) > Len(d) THEN t ELSE d

\* C9 as claimed: for a turn with delta text D and a complete transcript T,
\* the message finalized by response.done holds T when T is longer than D and
\* D otherwise, wherever the complete event came among the deltas.
C9_LongTranscriptWinsAnyOrder ==
  [][(Finalizes /\ Len(accComplete) = 1)
       => LastNew.content = Longer(accComplete[1], accDeltas)]_vars

\* C9 as amended: the same when the complete transcript came after every
\* delta of the turn.
C9_LongTranscriptWins ==
  [][(Finalizes /\ Len(accComplete) = 1 /\ ~accLate)
       => LastNew.content = Longer(accComplete[1], accDeltas)]_vars

C9_Witness ==
  \E i \in 1..Len(Messages) :
    /\ Messages[i].role = "assistant"
    /\ ~Messages[i].interrupted
    /\ Len(Messages[i].content) > MaxContent

\* C4: every write to the stored conversation keeps the stored message list
\* as a prefix of the new one, also across a reconnection.
C4_StoredPrefixKept ==
  [][store # NoRecord => IsPrefix(store.messages, store'.messages)]_vars

\* C5: within the conversation no sequence number is handed out twice,
\* across disconnects and reconnects.
C5_SequenceNeverReused ==
  \A i, j \in 1..Len(assigned) :
    i # j => assigned[i].sequence # assigned[j].sequence

IsHistory(m) == m.type = "conversation.item.create" /\ m.item = "history"

IsGreeting(m) ==
  m.type = "conversation.item.create" /\ m.item \in {"greeting", "welcome_back"}

IsResponseCreate(m) == m.type = "response.create"

\* C6: a start with hasMessages sends the prior messages upstream as history
\* items, in order and with their roles, and neither a greeting item nor a
\* response.create.
C6_ResumeReplaysOnly ==
  (hasMessages /\ openaiWs = "open") =>
    /\ SelectSeq(upstreamSent, IsHistory) = ReplayItems(previousMessages)
    /\ Count(upstreamSent, IsGreeting) = 0
    /\ Count(upstreamSent, IsResponseCreate) = 0

FreshStart ==
  ~isReconnection /\ ~hasMessages /\ previousMessages = <<>>
  /\ openaiWs = "open"

GreetingItems ==
  <<[type |-> "conversation.item.create", item |-> "greeting",
     role |-> "user", ctype |-> "input_text"],
    [type |-> "response.create"]>>

\* C7: a first connection without prior messages sends the session
\* configuration, then one greeting item and one response.create, and no
\* history item.
C7_FreshStartGreetsOnce ==
  FreshStart =>
    /\ greetTimer \in {"greeting", "none"}
    /\ NonAudio(upstreamSent) =
         <<[type |-> "session.update"]>>
         \o (IF greetTimer = "none" THEN GreetingItems ELSE <<>>)

C7_Witness == FreshStart /\ greetTimer = "none" /\ Len(upstreamSent) >= 3

PureReconnection ==
  isReconnection /\ ~hasMessages /\ previousMessages = <<>>
  /\ openaiWs = "open"

\* C8: a pure transport reconnection sends the session configuration only,
\* arms no greeting, and stays idle until the upstream engine starts a turn.
C8_PureReconnectionSilent ==
  PureReconnection =>
    /\ greetTimer = "none"
    /\ NonAudio(upstreamSent) = <<[type |-> "session.update"]>>
    /\ (activeResponse => \E r \in 1..MaxResp : respState[r] # "none")

C8_Witness == PureReconnection /\ AudioFrames = 1 /\ ~activeResponse

\* The save that returns in this step.
Returns(i) ==
  /\ i \in 1..Len(saves)
  /\ saves' = Remove(saves, i)

\* C10 as claimed: an upsert begun on a list that is already stored with at
\* least its length writes neither the row nor the fallback file.
C10_SecondUpsertWritesNothing ==
  [][\A i \in 1..MaxPending :
       (Returns(i) /\ store # NoRecord /\ saves[i].stored >= saves[i].total)
         => UNCHANGED <<store, fallbackFile>>]_vars

\* C10 as amended: an update is only ever issued by an upsert whose select
\* found a row counting fewer messages than the list then holds, an insert
\* only by one whose select found no row; the row changes by nothing else, and
\* the fallback file is only ever written by an upsert that failed on its last
\* attempt, with a greater count.
C10_UpsertNoOp ==
  /\ [](\A i \in 1..Len(saves) :
          /\ saves[i].pc = "update" =>
               saves[i].existing < Len(saves[i].body.messages)
          /\ saves[i].pc = "insert" => saves[i].existing = NoRecord.total_messages)
  /\ [][/\ store' # store =>
             \E i \in 1..Len(saves) :
               saves[i].pc \in {"update", "insert"} /\ store' = saves[i].body
        /\ fallbackFile' # fallbackFile =>
             /\ fallbackFile.total_messages < fallbackFile'.total_messages
             /\ \E i \in 1..Len(saves) :
                  saves[i].attempt = MAX_RETRIES - 1 /\ Returns(i)]_vars

\* A later upsert of the stored count has returned: the registry holds its
\* time, the row still holds the earlier one and no file was written.
C10_Witness ==
  /\ saves = <<>>
  /\ store # NoRecord
  /\ fallbackFile = NoRecord
  /\ activeSessions.messageCount = store.total_messages
  /\ activeSessions.lastSaveTime > store.updated_at

\* The one save in flight, begun while no other was in flight.
OneAtATime == Len(saves) = 1 /\ saves[1].alone

\* The select of the save in flight answers in this step.
SelectAnswers ==
  /\ saves[1].pc = "select"
  /\ saves[1].attempt < MAX_RETRIES - 1
  /\ \/ saves' = <<>>
     \/ Len(saves') = 1 /\ saves'[1].pc # "select"

\* C11: an upsert run to completion on its own inserts when its select finds
\* no record, overwrites the record when the list is longer than the record's
\* total, and leaves it untouched otherwise; the stored total never decreases.
C11_LengthDominance ==
  [][OneAtATime =>
       LET s == saves[1]
           data == ConversationData(SavedArray(1), s.total, s.at)
       IN /\ SelectAnswers =>
               IF store = NoRecord
               THEN saves'[1].pc = "insert" /\ saves'[1].body = data
               ELSE IF s.total > store.total_messages
               THEN saves'[1].pc = "update" /\ saves'[1].body = data
               ELSE saves' = <<>> /\ UNCHANGED <<store, fallbackFile>>
          /\ store' # store =>
               /\ store' = data
               /\ s.total > store.total_messages
               /\ s.pc = IF store = NoRecord THEN "insert" ELSE "update"
          /\ store'.total_messages >= store.total_messages]_vars

C11_Witness ==
  /\ OneAtATime
  /\ saves[1].pc = "update"
  /\ saves[1].existing = 1
  /\ saves[1].total = 2
  /\ store.total_messages = 1

\* C12: saves of one key that overlap are serialized: once all of them have
\* returned (none having fallen back to the local file) the record is the
\* longest list saved, and no write ever replaces the record by a shorter one.
C12_ConcurrentSavesSerialized ==
  /\ []((saves = <<>> /\ fallbackFile = NoRecord
            /\ activeSessions # NoSession) =>
          Len(store.messages) = activeSessions.messageCount)
  /\ [][Len(store.messages) <= Len(store'.messages)]_vars

\* C13: when a forced save of n messages returns, the record of the store or
\* the local fallback file holds at least n messages, also after failures on
\* every attempt and after an insert rejected as a duplicate.
C13_SaveNeverLost ==
  [][\A i \in 1..MaxPending :
       Returns(i) =>
         \/ Len(store'.messages) >= saves[i].total
         \/ Len(fallbackFile'.messages) >= saves[i].total]_vars

\* The greeting was sent on a first connection without prior messages.
Greeted ==
  /\ FreshStart
  /\ greetTimer = "none"
  /\ Count(upstreamSent, IsGreeting) = 1

DoneResponses == {r \in 1..MaxResp : respState[r] = "done"}

\* C14: when the user never speaks and the engine performs the greeting turn
\* with text that is not blank, the transcript is exactly one message:
\* assistant, sequence 0, not interrupted.  The scripted opening utterance is
\* never recorded: every message is an assistant message of a finished turn.
C14_GreetingOnlyTranscript ==
  /\ [](FreshStart =>
          /\ \A i \in 1..Len(Messages) :
               /\ Messages[i].role = "assistant"
               /\ ~Messages[i].interrupted
               /\ Messages[i].sequence = i - 1
          /\ Len(Messages) <= Cardinality(DoneResponses))
  /\ [][(/\ Greeted
         /\ DoneResponses = {}
         /\ DoneResponses' # {}
         /\ Trim(currentAssistantMessage.content) # <<>>)
        => conversationMessages'[conn] =
             <<[sequence |-> 0, role |-> "assistant",
                content |-> currentAssistantMessage.content,
                timestamp |-> currentAssistantMessage.timestamp,
                interrupted |-> FALSE]>>]_vars

C14_Witness ==
  /\ Greeted
  /\ Cardinality(DoneResponses) = 1
  /\ \A r \in 1..MaxResp : respState[r] \in {"none", "done"}
  /\ Len(Messages) = 1
  /\ Messages[1].role = "assistant"
  /\ Messages[1].sequence = 0

\* The step appends one message to the transcript.
Appends == Len(conversationMessages'[conn]) = Len(Messages) + 1

\* C15: the step that interrupts a turn appends its sealed message, so that
\* whenever a user message is appended afterwards every interrupted turn
\* already has its interrupted message in the transcript, unchanged and with
\* a smaller sequence number.
C15_InterruptedBeforeUser ==
  /\ [](\A r \in interruptedIds :
          \E i \in 1..Len(Messages), k \in 1..Len(assigned) :
            /\ Messages[i].role = "assistant"
            /\ Messages[i].interrupted
            /\ assigned[k] = [conn |-> conn, sequence |-> Messages[i].sequence,
                              by |-> r])
  /\ [][/\ interruptedIds' # interruptedIds =>
             Appends /\ LastNew.role = "assistant" /\ LastNew.interrupted
        /\ (Appends /\ LastNew.role = "user") =>
             \A i \in 1..Len(Messages) :
               /\ conversationMessages'[conn][i] = Messages[i]
               /\ Messages[i].sequence < LastNew.sequence]_vars

C15_Witness ==
  /\ interruptedIds = {1}
  /\ Len(Messages) = 2
  /\ Messages[1].role = "assistant"
  /\ Messages[1].interrupted
  /\ Messages[1].content = <<1>> \o Ellipsis
  /\ Messages[2].role = "user"
  /\ Messages[1].sequence < Messages[2].sequence

\* The records that persist the conversation.
Records == {store, fallbackFile} \ {NoRecord}

\* C16: the close and error handlers append nothing: a turn that is neither
\* finished nor interrupted leaves no message in the transcript or in any
\* record, and every record holds finalized messages of the transcript only.
C16_PartialTurnNotPersisted ==
  /\ [](/\ \A rec \in Records : IsPrefix(rec.messages, Messages)
        /\ (DoneResponses = {} /\ interruptedIds = {}) =>
             \A rec \in Records \cup {[messages |-> Messages]} :
               \A i \in 1..Len(rec.messages) : rec.messages[i].role = "user")
  /\ [][(clientWs' = "closed" \/ openaiWs' # "open") =>
          UNCHANGED conversationMessages]_vars

C16_Witness ==
  /\ clientWs = "closed"
  /\ openaiWs = "closed"
  /\ saves = <<>>
  /\ activeResponse
  /\ currentAssistantMessage.content # <<>>
  /\ rescued = <<>>
  /\ stopped = "no"
  /\ DoneResponses = {}
  /\ store # NoRecord
  /\ store.messages = Messages

\* C17: when emergency_save arrived while a turn had accumulated content and
\* the client disconnected before the turn finished, a record holds an
\* assistant message with that content.
C17_EmergencySavePersistsPartial ==
  (/\ clientWs = "closed"
   /\ saves = <<>>
   /\ rescued # <<>>
   /\ DoneResponses = {}
   /\ interruptedIds = {}) =>
    \E rec \in Records : \E i \in 1..Len(rec.messages) :
      /\ rec.messages[i].role = "assistant"
      /\ IsPrefix(rescued, rec.messages[i].content)

\* C18: a transient error event sends nothing to the client and leaves the
\* turn state and the transcript as they were, whatever its type and whether
\* or not a turn is Active.
C18_TransientErrorChangesNothing ==
  [][\A ty \in ErrorTypes, msg \in ErrorMessages :
       (Transient(msg) /\ UpstreamError(ty, msg)) =>
         /\ clientSent' = <<>>
         /\ UNCHANGED <<activeResponse, currentResponseId,
                        currentAssistantMessage, conversationMessages>>]_vars

\* C19: an error that is not transient, arriving while a turn is Active,
\* leaves the connection Idle with an empty accumulator and the upstream
\* connection open, and no later event appends an entry for that turn.
C19_FatalErrorAbortsTurn ==
  /\ [][\A ty \in ErrorTypes, msg \in ErrorMessages :
          (activeResponse /\ ~Transient(msg) /\ UpstreamError(ty, msg)) =>
            /\ ~activeResponse'
            /\ currentResponseId' = NoId
            /\ currentAssistantMessage'.content = <<>>
            /\ UNCHANGED <<conversationMessages, openaiWs>>]_vars
  /\ [][\A r \in erroredIds :
          Appends =>
            /\ assigned'[Len(assigned')].by # r
            /\ r \notin Chars(LastNew.content)]_vars

\* The messages of the error events that are not transient.
FatalMessages == {msg \in ErrorMessages : ~Transient(msg)}

\* C20: every error event that is not transient sends the client exactly one
\* error message, carrying the message of the event.
C20_FatalErrorForwarded ==
  [][\A ty \in ErrorTypes, msg \in FatalMessages :
       UpstreamError(ty, msg) =>
         clientSent' = <<[type |-> "error", message |-> msg]>>]_vars

C20_Witness ==
  /\ clientSent = <<[type |-> "error", message |-> <<"rate limit">>]>>
  /\ erroredIds # {}

\* The response.created of response r arrives in this step.
Creates(r) == respState[r] = "none" /\ respState'[r] = "open"

\* C21: a connection has one accumulator and one current response id, set
\* together; a response.created that arrives while a turn is Active appends
\* nothing to the transcript and replaces the accumulator by an empty one
\* with the time of the event, interrupted=false and the new response id, so
\* that nothing of the old content is left in the connection.
C21_NewTurnDiscardsStale ==
  /\ [](activeResponse <=> currentResponseId # NoId)
  /\ [][\A r \in 1..MaxResp :
          (activeResponse /\ Creates(r)) =>
            /\ activeResponse'
            /\ currentResponseId' = r
            /\ currentAssistantMessage' =
                 [role |-> "assistant", content |-> <<>>, timestamp |-> now,
                  interrupted |-> FALSE]
            /\ accDeltas' = <<>>
            /\ UNCHANGED conversationMessages]_vars

\* Response 2 was created while the turn of response 1 was Active at an
\* earlier time, and nothing has arrived since.
C21_Witness ==
  /\ respState = [r \in 1..MaxResp |-> IF r <= 2 THEN "open" ELSE "none"]
  /\ activeResponse
  /\ currentResponseId = 2
  /\ currentAssistantMessage.content = <<>>
  /\ currentAssistantMessage.timestamp > TickMs
  /\ Messages = <<>>

\* The step is a handler that calls saveConversation with forceImmediate
\* and a list that is not empty.
ForcedSaveCall ==
  \/ SpeechStarted /\ activeResponse /\ currentResponseId # NoId /\ username
  \/ \E t \in UserTranscripts : TranscriptionCompleted(t) /\ username
  \/ \E r \in 1..MaxResp :
       ResponseDone(r) /\ Trim(currentAssistantMessage.content) # <<>>
         /\ username
  \/ (\E rn \in BOOLEAN : Stop(rn) \/ EmergencySave \/ ClientClose)
       /\ Len(Messages) > 0 /\ username /\ conversationId # 0
  \/ UpstreamClosed /\ Len(Messages) > 0 /\ username

\* C22: a forced save of a list that is not empty is never suppressed: it
\* records the count and the time in the registry and begins the upsert of
\* the list, whatever the registry held.
C22_ForcedSaveProceeds ==
  [][ForcedSaveCall =>
       LET n == Len(conversationMessages'[conn])
       IN /\ activeSessions' = [messageCount |-> n, lastSaveTime |-> now]
          /\ Len(saves') = Len(saves) + 1
          /\ saves'[Len(saves')].total = n
          /\ saves'[Len(saves')].pc = "select"
          /\ saves'[Len(saves')].attempt = 0]_vars

\* Two forced saves of the same count begun at the same time are in flight:
\* the second found its count and a time inside the window in the registry.
C22_Witness ==
  /\ Len(saves) = 2
  /\ saves[1].total = saves[2].total
  /\ saves[1].at = saves[2].at
  /\ activeSessions = [messageCount |-> saves[2].total,
                       lastSaveTime |-> saves[2].at]

\* The callback of the auto-save timer calls saveConversation in this step.
TimerSaves == conn' = conn /\ lastSavedMessageCount' # lastSavedMessageCount

\* C23: a save that is not forced, for a sessionId with a registry entry, is
\* suppressed, touching neither the store nor the entry, when the entry
\* holds the count of the list or a time less than 1000 ms ago; otherwise
\* the entry takes the count and the current time and the upsert begins.
C23_DebouncePolicy ==
  [][(TimerSaves /\ activeSessions # NoSession) =>
       LET n == Len(Messages)
       IN IF \/ activeSessions.messageCount = n
             \/ now - activeSessions.lastSaveTime < 1000
          THEN UNCHANGED saveVars
          ELSE /\ activeSessions' = [messageCount |-> n, lastSaveTime |-> now]
               /\ Len(saves') = Len(saves) + 1
               /\ saves'[Len(saves')].total = n
               /\ saves'[Len(saves')].pc = "select"]_vars

\* A save begun by the timer is in flight: it began at a time when no
\* message was appended, 1000 ms after the entry's time, and the entry now
\* holds its count and time.
C23_Witness ==
  /\ Len(saves) = 1
  /\ saves[1].at = TickMs + 1000
  /\ \A i \in 1..Len(Messages) : Messages[i].timestamp < saves[1].at
  /\ saves[1].total = Len(Messages)
  /\ lastSavedMessageCount = Len(Messages)
  /\ activeSessions = [messageCount |-> Len(Messages),
                       lastSaveTime |-> saves[1].at]

\* C24: once a stop with requestNewSession has been handled, the upstream
\* connection has closed and the saves have returned, the registry holds no
\* entry for the sessionId.
C24_NewSessionEvicted ==
  (stopped = "stop_new" /\ openaiWs = "closed" /\ saves = <<>>) =>
    activeSessions = NoSession

\* C25: the eviction timer of a closed connection, firing while a later
\* connection with the same sessionId is live, leaves the registry entry.
C25_EvictionSparesLiveSession ==
  [][(evictTimers' < evictTimers /\ clientWs = "open" /\ sessionId # 0) =>
       activeSessions' = activeSessions]_vars

\* The client socket closes in this step.
ClientCloses == clientWs = "open" /\ clientWs' = "closed"

\* C26: the step in which the client socket closes clears the interval,
\* closes the upstream connection if there is one and appends nothing; it
\* begins one forced save of the transcript when that is not empty and
\* username and conversationId are set, and none otherwise.  While the
\* socket is closed the interval is cleared and its callback does not run.
C26_CloseReleases ==
  /\ [](clientWs = "closed" => ~autoSaveInterval)
  /\ [][/\ ClientCloses =>
             /\ ~autoSaveInterval'
             /\ openaiWs' \notin {"connecting", "open"}
             /\ (openaiWs = "null") = (openaiWs' = "null")
             /\ UNCHANGED <<conversationMessages, lastSavedMessageCount>>
             /\ IF Len(Messages) > 0 /\ username /\ conversationId # 0
                THEN /\ Len(saves') = Len(saves) + 1
                     /\ saves'[Len(saves')].total = Len(Messages)
                     /\ saves'[Len(saves')].waiter = "none"
                     /\ activeSessions' = [messageCount |-> Len(Messages),
                                           lastSaveTime |-> now]
                ELSE UNCHANGED saveVars
        /\ (clientWs = "closed" /\ clientWs' = "closed") =>
             UNCHANGED lastSavedMessageCount]_vars

\* The socket closed with messages the timer had not yet saved: its save is
\* the forced one of the close.
C26_Witness ==
  /\ clientWs = "closed"
  /\ openaiWs = "closed"
  /\ ~autoSaveInterval
  /\ Len(Messages) > lastSavedMessageCount
  /\ activeSessions.messageCount = Len(Messages)
  /\ store # NoRecord
  /\ Len(store.messages) = Len(Messages)
  /\ stopped = "no"

\* C27: once a stop has been handled the upstream connection is closed or
\* closing and, while the client socket stays open, the callback of the
\* auto-save interval does not run.
C27_StopCancelsTimer ==
  /\ [](stopped # "no" => openaiWs \in {"closing", "closed"})
  /\ [][(stopped # "no" /\ clientWs = "open" /\ clientWs' = "open") =>
          UNCHANGED lastSavedMessageCount]_vars

\* The audio frames in a log of messages sent upstream.
Frames(log) == SelectSeq(log, LAMBDA m : m.type = "input_audio_buffer.append")

\* C28: an audio message appends one input_audio_buffer.append with its
\* payload to what was sent upstream when the upstream connection is open;
\* otherwise it changes nothing and sends the client nothing.  A frame is
\* only ever sent in the step of its audio message.
C28_AudioForwardedIffOpen ==
  [][/\ \A a \in AudioPayloads :
          Audio(a) =>
            /\ clientSent' = <<>>
            /\ IF openaiWs = "open"
               THEN upstreamSent' =
                      Append(upstreamSent,
                             [type |-> "input_audio_buffer.append",
                              audio |-> a])
               ELSE UNCHANGED <<connVars, turnVars, msgVars, upVars,
                                saveVars, timerVars, envVars>>
     /\ (conn' = conn /\ Frames(upstreamSent') # Frames(upstreamSent)) =>
          /\ openaiWs = "open"
          /\ \E a \in AudioPayloads : Audio(a)]_vars

\* A frame was forwarded and the upstream connection has closed since.
C28_Witness ==
  /\ Frames(upstreamSent) =
       <<[type |-> "input_audio_buffer.append", audio |-> "frame b"]>>
  /\ clientWs = "open"
  /\ openaiWs = "closed"

\* C30: a save ends by returning to its caller, after at most MAX_RETRIES
\* attempts, also when the store failed on each and the local write failed
\* as well: a stop handler awaiting it runs to its end.  No step of a save
\* and no emergency_save changes the transcript, activeResponse,
\* currentResponseId or the accumulator.
C30_SaveNeverThrows ==
  /\ [](\A i \in 1..Len(saves) : saves[i].attempt < MAX_RETRIES)
  /\ [][/\ ((Len(saves') <= Len(saves) /\ saves' # saves) \/ EmergencySave) =>
             UNCHANGED <<conversationMessages, activeResponse,
                         currentResponseId, currentAssistantMessage>>
        /\ \A i \in 1..MaxPending :
             (Returns(i) /\ saves[i].waiter # "none" /\ saves[i].conn = conn) =>
               /\ stopped' = saves[i].waiter
               /\ openaiWs' \notin {"connecting", "open"}]_vars

\* Every save of the message has returned with nothing written to the store
\* or the file, the one awaited by stop among them, whose handler ran on; the
\* turn is live and as emergency_save found it.
C30_Witness ==
  /\ saves = <<>>
  /\ stopped = "stop"
  /\ store = NoRecord
  /\ fallbackFile = NoRecord
  /\ Len(Messages) = 1
  /\ activeSessions.messageCount = 1
  /\ activeResponse
  /\ currentResponseId = 1
  /\ rescued # <<>>
  /\ currentAssistantMessage.content = rescued

\* The file after a fallback write of the candidate record c.
FileRule(c) ==
  fallbackFile' =
    IF fallbackFile = NoRecord
         \/ fallbackFile.total_messages < c.total_messages
    THEN c
    ELSE fallbackFile

\* C31: a save whose last attempt fails, and a save made while there is no
\* store client, writes its record to the local file iff the file does not
\* exist or holds strictly fewer messages than the record counts; otherwise
\* the file is left as it is.
C31_FallbackLengthDominance ==
  [][/\ \A i \in 1..MaxPending :
          (AttemptFails(i) /\ saves[i].attempt = MAX_RETRIES - 1) =>
            FileRule(ConversationData(SavedArray(i), saves[i].total,
                                      saves[i].at))
     /\ (~supabase /\ (EmergencySave \/ TranscriptionCompleted(<<UserCh>>))
           /\ Len(Messages') > 0) =>
          FileRule(ConversationData(Messages', Len(Messages'), now))]_vars

\* Both saves of a two-message transcript fell back to the file after the
\* store failed, and the file holds the longer record.
C31_Witness ==
  /\ supabase
  /\ saves = <<>>
  /\ store = NoRecord
  /\ Len(Messages) = 2
  /\ fallbackFile # NoRecord
  /\ fallbackFile.total_messages = 2

\* The record a save hands to the store.
Candidate(i) == ConversationData(SavedArray(i), saves[i].total, saves[i].at)

\* C32: a save makes at most MAX_RETRIES attempts: a failed attempt that is not
\* the last starts the operation again, the last failed attempt ends the save,
\* a successful write ends it at once, and every save ends.  A save that ran
\* alone and succeeded after failed attempts leaves the record one successful
\* upsert would leave: its own record if the row was missing or shorter, the
\* row as it was otherwise.
C32_RetryTerminates ==
  /\ [](\A i \in 1..Len(saves) : saves[i].attempt \in 0..(MAX_RETRIES - 1))
  /\ [][\A i \in 1..MaxPending :
          /\ (AttemptFails(i) \/ ResponseLost(i)) =>
               IF saves[i].attempt < MAX_RETRIES - 1
               THEN /\ Len(saves') = Len(saves)
                    /\ saves'[i].attempt = saves[i].attempt + 1
                    /\ saves'[i].pc = "select"
               ELSE saves' = Remove(saves, i)
          /\ (UpdateOk(i) \/ InsertOk(i)) => saves' = Remove(saves, i)
          /\ ((SelectOk(i) \/ UpdateOk(i) \/ InsertOk(i))
                /\ saves' = Remove(saves, i)
                /\ saves[i].alone /\ saves[i].attempt > 0) =>
               IF saves[i].stored < saves[i].total
               THEN store' = Candidate(i)
               ELSE store' = store
                      /\ store.total_messages = saves[i].stored]_vars
  /\ <>[](saves = <<>>)

\* A save is on its last attempt after the store applied its write without
\* answering.
C32_Witness ==
  \E i \in 1..Len(saves) :
    /\ saves[i].attempt = MAX_RETRIES - 1
    /\ saves[i].alone
    /\ saves[i].pc = "select"
    /\ store = Candidate(i)

\* C33: when a start message has been handled (the connection got its
\* sessionId), the registry holds a record for the sessionId.
C33_StartRegistersSession ==
  [][(sessionId = 0 /\ sessionId' # 0) => activeSessions' # NoSession]_vars

\* C34: every step leaves each message of every connection's transcript where
\* and as it was: a transcript only grows at its end.
C34_TranscriptAppendOnly ==
  [][\A c \in 1..MaxConns :
       IsPrefix(conversationMessages[c], conversationMessages'[c])]_vars

\* An interrupted assistant turn and a user turn are in the transcript, and
\* the client has since sent start again and stop.
C34_Witness ==
  /\ Len(Messages) = 2
  /\ Messages[1].role = "assistant"
  /\ Messages[1].interrupted
  /\ Messages[2].role = "user"
  /\ orphans = 1
  /\ stopped = "stop"

\* C35: a connection has no upstream socket besides the one in openaiWs that
\* is still connecting or open.
C35_OneUpstream == orphans = 0

\* C36: whenever the server sends a message upstream, the upstream socket is
\* open (for the open handler: has just opened).
C36_SendsOnlyWhileOpen ==
  [][Len(upstreamSent') > Len(upstreamSent) => openaiWs' = "open"]_vars

\* C37: the record in the store counts exactly the messages it holds.
C37_TotalMatchesMessages ==
  store # NoRecord => store.total_messages = Len(store.messages)

\* C38: activeResponse holds exactly when currentResponseId is set, and a
\* connection that is Idle (where only response.done and an interruption end
\* a turn) has the accumulator of a reset: no content, no timestamp, not
\* interrupted.
C38_IdleAccumulatorEmpty ==
  /\ activeResponse <=> currentResponseId # NoId
  /\ ~activeResponse => currentAssistantMessage = EmptyAssistantMessage

\* C39: when a reconnect timer fires and the session is still active and not
\* paused, the page opens a new WebSocket.
C39_ReconnectOpensSocket ==
  [][(client'.reconnectTimers < client.reconnectTimers
        /\ client.isSessionActive /\ ~client.isPaused) =>
       (client'.ws = "connecting" /\ client'.sockets = client.sockets + 1)]_vars

\* The start messages sent that ask for a greeting: no reconnection, no
\* messages.
FreshStarts(c) ==
  {i \in 1..Len(client.started) :
     /\ client.started[i].conversationId = c
     /\ ~client.started[i].isReconnection
     /\ ~client.started[i].hasMessages}

\* C40: the page has sent at most one start message with isReconnection
\* false and hasMessages false for a conversationId.
C40_OneFreshStart == Cardinality(FreshStarts(1)) <= 1

TypeOK ==
  /\ conn \in 0..MaxConns
  /\ Len(saves) <= MaxPending

====
